---- MODULE Spec2Model ----
(***************************************************************************)
(* Model of lambda-to-discord: the discord dispatcher (discord/client.go), *)
(* the domain model (domain/notification.go), the direct adapter           *)
(* (adapter/direct.go) and the Lambda entrypoint with its failure          *)
(* notification path (HandleRequest / notifyProcessingError).              *)
(*                                                                         *)
(* A Go string is a sequence of atoms.  The whitespace atoms are single    *)
(* characters; every other atom stands for a run of non-space characters.  *)
(* JSON text is a sequence of the same atoms, so that trimming, escaping,  *)
(* indenting and substring tests are computed, not assumed.                *)
(***************************************************************************)
EXTENDS Integers, Sequences, FiniteSets, TLC

VARIABLES pc, event, errorWebhook, eventMap, webhookURL, payload, procErr,
          response, posts, call

vars == <<pc, event, errorWebhook, eventMap, webhookURL, payload, procErr,
          response, posts, call>>

(***************************************************************************)
(* strings                                                                 *)
(***************************************************************************)
Whitespace == {" ", "\n", "\t"}

RECURSIVE TrimLeft(_)
TrimLeft(s) ==
    IF s = <<>> THEN <<>>
    ELSE IF Head(s) \in Whitespace THEN TrimLeft(Tail(s)) ELSE s

RECURSIVE TrimRight(_)
TrimRight(s) ==
    IF s = <<>> THEN <<>>
    ELSE IF s[Len(s)] \in Whitespace THEN TrimRight(SubSeq(s, 1, Len(s) - 1)) ELSE s

\* strings.TrimSpace / bytes.TrimSpace
TrimSpace(s) == TrimRight(TrimLeft(s))

IsBlank(s) == TrimSpace(s) = <<>>

\* strings.Contains, on atoms
Contains(s, sub) ==
    \E i \in 0..(Len(s) - Len(sub)) : SubSeq(s, i + 1, i + Len(sub)) = sub

\* strings.Count, on atoms
Count(s, sub) ==
    Cardinality({i \in 0..(Len(s) - Len(sub)) : SubSeq(s, i + 1, i + Len(sub)) = sub})

RECURSIVE Join(_, _)
Join(parts, sep) ==
    IF parts = <<>> THEN <<>>
    ELSE IF Len(parts) = 1 THEN parts[1]
    ELSE parts[1] \o sep \o Join(Tail(parts), sep)

(***************************************************************************)
(* encoding/json, as far as the program uses it                            *)
(***************************************************************************)
Quote == "\""

\* the escapes json.Marshal applies inside a string literal
EscapeAtom(a) ==
    IF a = Quote THEN "\\\""
    ELSE IF a = "\n" THEN "\\n"
    ELSE IF a = "\t" THEN "\\t"
    ELSE IF a = "\\\"" THEN "\\\\\\\""
    ELSE IF a = "\\n" THEN "\\\\n"
    ELSE IF a = "\\t" THEN "\\\\t"
    ELSE a

Escape(s) == [i \in 1..Len(s) |-> EscapeAtom(s[i])]

\* json.Marshal of a Go string
MarshalString(s) == <<Quote>> \o Escape(s) \o <<Quote>>

\* what json.Unmarshal reads an escape inside a string literal as
UnescapeAtom(a) ==
    IF a = "\\\\\\\"" THEN "\\\""
    ELSE IF a = "\\\\n" THEN "\\n"
    ELSE IF a = "\\\\t" THEN "\\t"
    ELSE IF a = "\\\"" THEN Quote
    ELSE IF a = "\\n" THEN "\n"
    ELSE IF a = "\\t" THEN "\t"
    ELSE a

Unescape(s) == [i \in 1..Len(s) |-> UnescapeAtom(s[i])]

\* json.Unmarshal of a string literal into a Go string
UnmarshalString(text) == Unescape(SubSeq(text, 2, Len(text) - 1))

\* json.Marshal of a []string
MarshalStrings(list) ==
    <<"[">> \o Join([i \in 1..Len(list) |-> MarshalString(list[i])], <<",">>) \o <<"]">>

\* one "key":value member of an object
Member(key, text) == MarshalString(<<key>>) \o <<":">> \o text

\* an object from its members, in the order given
Object(members) == <<"{">> \o Join(members, <<",">>) \o <<"}">>

\* the members, in the order given, whose flag is set
RECURSIVE Keep(_)
Keep(flagged) ==
    IF flagged = <<>> THEN <<>>
    ELSE IF flagged[1][1] THEN <<flagged[1][2]>> \o Keep(Tail(flagged))
    ELSE Keep(Tail(flagged))

(***************************************************************************)
(* errors                                                                  *)
(***************************************************************************)
Nil == [type |-> "nil", msg |-> <<>>]

\* errors.New
New(text) == [type |-> "errorString", msg |-> <<text>>]

\* fmt.Errorf("<prefix>: %w", err)
Errorf(prefix, err) == [type |-> "wrapError", msg |-> <<prefix, ": ">> \o err.msg]

\* errors.Join(a, b)
ErrorsJoin(a, b) == [type |-> "joinError", msg |-> a.msg \o <<"\n">> \o b.msg]

\* &WebhookError{Err: err} and its Error()
WebhookError(err) ==
    [type |-> "WebhookError", msg |-> <<"failed to send message to Discord", ": ">> \o err.msg]

(***************************************************************************)
(* domain/notification.go                                                  *)
(***************************************************************************)
NoFooter == [set |-> FALSE, Text |-> <<>>]

Embed(title, description) ==
    [Title |-> title, Description |-> description, Color |-> 0, Fields |-> <<>>,
     Footer |-> NoFooter, Timestamp |-> <<>>]

\* a *AllowedMentions: set = FALSE is the nil pointer
NilMentions ==
    [set |-> FALSE, Parse |-> <<>>, Users |-> <<>>, Roles |-> <<>>, RepliedUser |-> FALSE]

Mentions(parse, users, roles, replied) ==
    [set |-> TRUE, Parse |-> parse, Users |-> users, Roles |-> roles, RepliedUser |-> replied]

\* a mutation of IsZero that leaves RepliedUser out
IsZeroIgnoresRepliedUser(a) ==
    IF ~a.set THEN TRUE
    ELSE Len(a.Parse) = 0 /\ Len(a.Users) = 0 /\ Len(a.Roles) = 0

IsZero(a) ==
    IF ~a.set THEN TRUE
    ELSE Len(a.Parse) = 0 /\ Len(a.Users) = 0 /\ Len(a.Roles) = 0 /\ ~a.RepliedUser

NoMentions == Mentions(<<>>, <<>>, <<>>, FALSE)

\* the zero value domain.NotificationPayload{}
ZeroPayload ==
    [WebhookURL |-> <<>>, Content |-> <<>>, Embeds |-> <<>>, AllowedMentions |-> NilMentions,
     Username |-> <<>>, AvatarURL |-> <<>>]

Validate(p) ==
    IF TrimSpace(p.WebhookURL) = <<>> THEN New("discord webhook URL must be provided")
    ELSE IF TrimSpace(p.Content) = <<>> /\ Len(p.Embeds) = 0
         THEN New("notification payload must include content or embeds")
    ELSE Nil

(***************************************************************************)
(* json.Marshal of the domain types (struct tags of domain/notification.go)*)
(***************************************************************************)
MarshalEmbedField(f) ==
    Object(Keep(<<
        <<TRUE, Member("name", MarshalString(f.Name))>>,
        <<TRUE, Member("value", MarshalString(f.Value))>>,
        <<f.Inline, Member("inline", <<"true">>)>> >>))

MarshalEmbed(e) ==
    Object(Keep(<<
        <<e.Title # <<>>, Member("title", MarshalString(e.Title))>>,
        <<e.Description # <<>>, Member("description", MarshalString(e.Description))>>,
        <<e.Color # 0, Member("color", <<ToString(e.Color)>>)>>,
        <<Len(e.Fields) > 0,
          Member("fields", <<"[">>
              \o Join([i \in 1..Len(e.Fields) |-> MarshalEmbedField(e.Fields[i])], <<",">>)
              \o <<"]">>)>>,
        <<e.Footer.set, Member("footer", Object(<<Member("text", MarshalString(e.Footer.Text))>>))>>,
        <<e.Timestamp # <<>>, Member("timestamp", MarshalString(e.Timestamp))>> >>))

MarshalEmbeds(list) ==
    IF Len(list) = 0 THEN <<"null">>
    ELSE <<"[">> \o Join([i \in 1..Len(list) |-> MarshalEmbed(list[i])], <<",">>) \o <<"]">>

MarshalAllowedMentions(a) ==
    IF ~a.set THEN <<"null">>
    ELSE Object(Keep(<<
        <<Len(a.Parse) > 0, Member("parse", MarshalStrings(a.Parse))>>,
        <<Len(a.Users) > 0, Member("users", MarshalStrings(a.Users))>>,
        <<Len(a.Roles) > 0, Member("roles", MarshalStrings(a.Roles))>>,
        <<a.RepliedUser, Member("replied_user", <<"true">>)>> >>))

(***************************************************************************)
(* net/http, as far as the program uses it                                 *)
(***************************************************************************)
\* a URL atom that url.Parse rejects (an unclosed IPv6 literal)
MalformedURL == "http://[::1"

\* http.NewRequestWithContext fails when url.Parse rejects the URL: a control
\* character anywhere, a first path segment with a colon (a leading space
\* before the scheme), or a malformed authority
NewRequestFails(url) ==
    \/ \E i \in 1..Len(url) : url[i] \in {"\n", "\t", MalformedURL}
    \/ Len(url) > 1 /\ url[1] = " " /\ ~IsBlank(url)

URLError == New("parse error")

\* what the HTTPClient and the response body do when asked: Do fails with
\* doErr, or returns status and body, whose reading and closing may fail
Outcome(doErr, status, body, readErr, closeErr) ==
    [doErr |-> doErr, status |-> status, body |-> body, readErr |-> readErr,
     closeErr |-> closeErr]

\* a request handed to HTTPClient.Do
Request(url, body) == [url |-> url, body |-> body]

\* the result of a send, with the requests handed to Do and whether the
\* response body was closed
Result(status, body, err, reqs, closed) ==
    [status |-> status, body |-> body, err |-> err, reqs |-> reqs, closed |-> closed]

(***************************************************************************)
(* discord/client.go                                                       *)
(***************************************************************************)
\* a mutation of buildRequestBody that drops allowed_mentions when it is empty
buildRequestBodyDropEmptyMentions(p) ==
    Object(Keep(<<
        <<p.AllowedMentions.set /\ ~IsZero(p.AllowedMentions),
          Member("allowed_mentions", MarshalAllowedMentions(p.AllowedMentions))>>,
        <<TrimSpace(p.AvatarURL) # <<>>, Member("avatar_url", MarshalString(p.AvatarURL))>>,
        <<TrimSpace(p.Content) # <<>>, Member("content", MarshalString(p.Content))>>,
        <<Len(p.Embeds) > 0, Member("embeds", MarshalEmbeds(p.Embeds))>>,
        <<TrimSpace(p.Username) # <<>>, Member("username", MarshalString(p.Username))>> >>))

\* json.Marshal writes the keys of a map in sorted order
buildRequestBody(p) ==
    Object(Keep(<<
        <<p.AllowedMentions.set,
          Member("allowed_mentions", MarshalAllowedMentions(p.AllowedMentions))>>,
        <<TrimSpace(p.AvatarURL) # <<>>, Member("avatar_url", MarshalString(p.AvatarURL))>>,
        <<TrimSpace(p.Content) # <<>>, Member("content", MarshalString(p.Content))>>,
        <<Len(p.Embeds) > 0, Member("embeds", MarshalEmbeds(p.Embeds))>>,
        <<TrimSpace(p.Username) # <<>>, Member("username", MarshalString(p.Username))>> >>))

\* lines 54-72 of Send: Do, then read and close the response body
Deliver(req, o) ==
    IF o.doErr # Nil THEN Result(0, <<>>, WebhookError(o.doErr), <<req>>, FALSE)
    ELSE IF o.readErr # Nil
         THEN Result(0, <<>>,
                     Errorf("failed to read response",
                            IF o.closeErr # Nil
                            THEN ErrorsJoin(o.readErr,
                                            Errorf("failed to close response body", o.closeErr))
                            ELSE o.readErr),
                     <<req>>, TRUE)
    ELSE IF o.closeErr # Nil
         THEN Result(0, <<>>, Errorf("failed to close response body", o.closeErr), <<req>>, TRUE)
    ELSE Result(o.status, o.body, Nil, <<req>>, TRUE)

\* a mutation of Send that skips payload.Validate()
SendNoValidate(p, o) ==
    IF NewRequestFails(p.WebhookURL)
    THEN Result(0, <<>>, Errorf("failed to create request", URLError), <<>>, FALSE)
    ELSE Deliver(Request(p.WebhookURL, buildRequestBody(p)), o)

\* a mutation of Send that treats a status of 400 or more as a delivery error
SendRejectsStatus(p, o) ==
    IF Validate(p) # Nil THEN Result(0, <<>>, Validate(p), <<>>, FALSE)
    ELSE IF NewRequestFails(p.WebhookURL)
    THEN Result(0, <<>>, Errorf("failed to create request", URLError), <<>>, FALSE)
    ELSE IF o.doErr = Nil /\ o.status >= 400
    THEN Result(0, <<>>, WebhookError(New("bad status")),
                <<Request(p.WebhookURL, buildRequestBody(p))>>, TRUE)
    ELSE Deliver(Request(p.WebhookURL, buildRequestBody(p)), o)

\* a mutation of Send that reports a failed read as a WebhookError
SendReadAsWebhookError(p, o) ==
    IF Validate(p) # Nil THEN Result(0, <<>>, Validate(p), <<>>, FALSE)
    ELSE IF NewRequestFails(p.WebhookURL)
    THEN Result(0, <<>>, Errorf("failed to create request", URLError), <<>>, FALSE)
    ELSE IF o.doErr = Nil /\ o.readErr # Nil
    THEN Result(0, <<>>, WebhookError(o.readErr),
                <<Request(p.WebhookURL, buildRequestBody(p))>>, TRUE)
    ELSE Deliver(Request(p.WebhookURL, buildRequestBody(p)), o)

Send(p, o) ==
    IF Validate(p) # Nil THEN Result(0, <<>>, Validate(p), <<>>, FALSE)
    ELSE IF NewRequestFails(p.WebhookURL)
    THEN Result(0, <<>>, Errorf("failed to create request", URLError), <<>>, FALSE)
    ELSE Deliver(Request(p.WebhookURL, buildRequestBody(p)), o)

(***************************************************************************)
(* decoded JSON values (Go's any) and the raw event                        *)
(*                                                                         *)
(* A value is [t, s, list, obj]: t is its JSON type; s the text of a       *)
(* string, number or bool; list the elements of an array; obj the members  *)
(* of an allowed_mentions-shaped object.  An array element is              *)
(* [kind, title]: the object {"title": title}, the object {"title": 123}   *)
(* ("badfield") or the number 7 ("number").                                *)
(***************************************************************************)
NoObj == [kind |-> "none", parse |-> <<>>, users |-> <<>>, roles |-> <<>>,
          replied_user |-> FALSE]

String(s) == [t |-> "string", s |-> s, list |-> <<>>, obj |-> NoObj]
Number(text) == [t |-> "number", s |-> <<text>>, list |-> <<>>, obj |-> NoObj]
Bool(text) == [t |-> "bool", s |-> <<text>>, list |-> <<>>, obj |-> NoObj]
Null == [t |-> "null", s |-> <<>>, list |-> <<>>, obj |-> NoObj]
Array(list) == [t |-> "array", s |-> <<>>, list |-> list, obj |-> NoObj]
MentionsObject(kind, parse, users, roles, replied) ==
    [t |-> "object", s |-> <<>>, list |-> <<>>,
     obj |-> [kind |-> kind, parse |-> parse, users |-> users, roles |-> roles,
              replied_user |-> replied]]

Element(kind, title) == [kind |-> kind, title |-> title, description |-> <<>>]

\* JSON text of an array element
ElementText(e) ==
    IF e.kind = "number" THEN <<"7">>
    ELSE IF e.kind = "badfield" THEN Object(<<Member("title", <<"123">>)>>)
    ELSE Object(Keep(<<
            <<e.description # <<>>, Member("description", MarshalString(e.description))>>,
            <<TRUE, Member("title", MarshalString(e.title))>> >>))

\* JSON text of an allowed_mentions-shaped object: "parse" is always written,
\* the other members when they are set; a "badfield" object has "parse": 1
MentionsText(o) ==
    Object(Keep(<<
        <<TRUE, Member("parse", IF o.kind = "badfield" THEN <<"1">> ELSE MarshalStrings(o.parse))>>,
        <<o.replied_user, Member("replied_user", <<"true">>)>>,
        <<Len(o.roles) > 0, Member("roles", MarshalStrings(o.roles))>>,
        <<Len(o.users) > 0, Member("users", MarshalStrings(o.users))>> >>))

\* compact JSON text of a value (json.Marshal of the decoded value)
MarshalValue(v) ==
    CASE v.t = "string" -> MarshalString(v.s)
      [] v.t = "number" -> v.s
      [] v.t = "bool" -> v.s
      [] v.t = "null" -> <<"null">>
      [] v.t = "array" ->
            <<"[">> \o Join([i \in 1..Len(v.list) |-> ElementText(v.list[i])], <<",">>) \o <<"]">>
      [] v.t = "object" -> MentionsText(v.obj)

\* fmt.Sprint of a decoded value
Sprint(v) ==
    CASE v.t = "string" -> v.s
      [] v.t = "number" -> v.s
      [] v.t = "bool" -> v.s
      [] v.t = "null" -> <<"<nil>">>
      [] v.t = "array" -> <<"[">> \o (IF Len(v.list) > 0 THEN <<"...">> ELSE <<>>) \o <<"]">>
      [] v.t = "object" -> <<"map[", "...", "]">>

\* the keys of a map in the order json.Marshal writes them
KeyOrder == <<"allowed_mentions", "avatar_url", "content", "embeds", "message", "username",
              "webhookURL", "webhook_url">>

\* a map[string]any: isNil distinguishes Go's nil map from an empty one
Map(m) == [isNil |-> FALSE, m |-> m]
EmptyMap == Map([k \in {} |-> Null])
NilMap == [isNil |-> TRUE, m |-> [k \in {} |-> Null]]

Has(em, key) == key \in DOMAIN em.m

\* compact JSON text of a map (json.Marshal)
MarshalMap(em) ==
    IF em.isNil THEN <<"null">>
    ELSE Object(Keep([i \in 1..Len(KeyOrder) |->
            <<Has(em, KeyOrder[i]),
              IF Has(em, KeyOrder[i]) THEN Member(KeyOrder[i], MarshalValue(em.m[KeyOrder[i]]))
              ELSE <<>> >>]))

\* json.MarshalIndent(value, prefix, "  ") of a value at the given depth
IndentAtoms(depth) == [i \in 1..depth |-> "  "]

MarshalIndentValue(v, depth) ==
    IF v.t = "array" /\ Len(v.list) > 0
    THEN <<"[">>
         \o Join([i \in 1..Len(v.list) |->
                    <<"\n">> \o IndentAtoms(depth + 1) \o
                    (IF v.list[i].kind = "number" THEN <<"7">>
                     ELSE <<"{", "\n">> \o IndentAtoms(depth + 2)
                          \o MarshalString(<<"title">>) \o <<":", " ">>
                          \o (IF v.list[i].kind = "badfield" THEN <<"123">>
                              ELSE MarshalString(v.list[i].title))
                          \o <<"\n">> \o IndentAtoms(depth + 1) \o <<"}">>)],
                 <<",">>)
         \o <<"\n">> \o IndentAtoms(depth) \o <<"]">>
    ELSE MarshalValue(v)

\* json.MarshalIndent(event, "", "  ") of a map
MarshalIndent(em) ==
    IF em.isNil THEN <<"null">>
    ELSE IF DOMAIN em.m = {} THEN <<"{", "}">>
    ELSE <<"{">>
         \o Join(Keep([i \in 1..Len(KeyOrder) |->
                    <<Has(em, KeyOrder[i]),
                      IF Has(em, KeyOrder[i])
                      THEN <<"\n", "  ">> \o MarshalString(<<KeyOrder[i]>>) \o <<":", " ">>
                           \o MarshalIndentValue(em.m[KeyOrder[i]], 1)
                      ELSE <<>> >>]),
                 <<",">>)
         \o <<"\n", "}">>

(***************************************************************************)
(* the raw event (json.RawMessage)                                         *)
(*                                                                         *)
(* [shape, inner, m, pad]: shape is what the bytes are ("empty", "blank",  *)
(* "object", "string", "number", "array", "bool", "null", "invalid");      *)
(* inner is what the content of a JSON string is; m holds the members of   *)
(* the object (of the string's content, for a string); pad says whether    *)
(* whitespace surrounds the bytes.                                         *)
(***************************************************************************)
Raw(shape, inner, m, pad) == [shape |-> shape, inner |-> inner, m |-> m, pad |-> pad]

\* the content of a JSON string event
InnerText(raw) ==
    CASE raw.inner = "empty" -> <<>>
      [] raw.inner = "blank" -> <<" ">>
      [] raw.inner = "object" -> MarshalMap(Map(raw.m))
      [] raw.inner = "padobject" -> <<" ">> \o MarshalMap(Map(raw.m)) \o <<"\n">>
      [] raw.inner = "wrapped" -> MarshalString(MarshalMap(Map(raw.m)))
      [] raw.inner = "null" -> <<"null">>
      [] raw.inner = "number" -> <<"123">>
      [] OTHER -> <<"oops">>

\* the bytes without surrounding whitespace
CoreText(raw) ==
    CASE raw.shape = "empty" -> <<>>
      [] raw.shape = "blank" -> <<>>
      [] raw.shape = "object" -> MarshalMap(Map(raw.m))
      [] raw.shape = "string" -> MarshalString(InnerText(raw))
      [] raw.shape = "number" -> <<"123">>
      [] raw.shape = "array" -> <<"[", "1", ",", "2", "]">>
      [] raw.shape = "bool" -> <<"true">>
      [] raw.shape = "null" -> <<"null">>
      [] OTHER -> <<"{", "oops">>

\* the bytes of the event
RawText(raw) ==
    IF raw.shape = "empty" THEN <<>>
    ELSE IF raw.shape = "blank" THEN <<" ", "\n">>
    ELSE IF raw.pad THEN <<" ">> \o CoreText(raw) \o <<"\n">>
    ELSE CoreText(raw)

\* json.Valid of the trimmed bytes
Valid(raw) == raw.shape \in {"object", "string", "number", "array", "bool", "null"}

\* json.Indent(&buf, trimmed, "", "  ")
Indent(raw) ==
    CASE raw.shape = "object" -> MarshalIndent(Map(raw.m))
      [] raw.shape = "array" -> <<"[", "\n", "  ", "1", ",", "\n", "  ", "2", "\n", "]">>
      [] OTHER -> CoreText(raw)

JSONError == New("json: cannot unmarshal")

(***************************************************************************)
(* normaliseEvent (the same code in package main and in adapter/direct.go) *)
(***************************************************************************)
Normalised(em, err) == [eventMap |-> em, err |-> err]

\* lines 192-202: asString has been decoded; inner is its trimmed text, which
\* json.Unmarshal reads into the map when it is the text of an object (or null,
\* which leaves the map nil)
normaliseString(raw, inner) ==
    IF inner = <<>> THEN Normalised(EmptyMap, Nil)
    ELSE IF raw.inner \in {"object", "padobject"} /\ inner = MarshalMap(Map(raw.m))
    THEN Normalised(Map(raw.m), Nil)
    ELSE IF inner = <<"null">> THEN Normalised(NilMap, Nil)
    ELSE Normalised(NilMap, Errorf("event string must contain valid JSON object", JSONError))

\* a mutation of normaliseEvent that does not unwrap a JSON string
normaliseEventNoUnwrap(raw) ==
    IF Len(TrimSpace(RawText(raw))) = 0 THEN Normalised(EmptyMap, Nil)
    ELSE IF raw.shape = "object" THEN Normalised(Map(raw.m), Nil)
    ELSE IF raw.shape = "null" THEN Normalised(NilMap, Nil)
    ELSE Normalised(NilMap, New("event must be an object or JSON string"))

normaliseEvent(raw) ==
    IF Len(RawText(raw)) = 0 THEN Normalised(EmptyMap, Nil)
    ELSE IF Len(TrimSpace(RawText(raw))) = 0 THEN Normalised(EmptyMap, Nil)
    \* json.Unmarshal(trimmed, &eventMap): an object, or null (which leaves the map nil)
    ELSE IF raw.shape = "object" THEN Normalised(Map(raw.m), Nil)
    ELSE IF raw.shape = "null" THEN Normalised(NilMap, Nil)
    \* json.Unmarshal(trimmed, &asString)
    ELSE IF raw.shape = "string"
         THEN normaliseString(raw, TrimSpace(UnmarshalString(TrimSpace(RawText(raw)))))
    ELSE Normalised(NilMap, New("event must be an object or JSON string"))

(***************************************************************************)
(* package main: the entrypoint's helpers                                  *)
(***************************************************************************)
\* strings.TrimSpace(fmt.Sprint(value)) of a key that is present, else ""
SprintKey(em, key) == IF Has(em, key) THEN TrimSpace(Sprint(em.m[key])) ELSE <<>>

Built(p, err) == [payload |-> p, err |-> err]

\* the content buildDiscordPayload settles on: "content", else "message"
PayloadContent(em) ==
    IF SprintKey(em, "content") # <<>> THEN SprintKey(em, "content")
    ELSE SprintKey(em, "message")

buildDiscordPayload(em) ==
    IF PayloadContent(em) = <<>>
    THEN Built(NilMap, New("event must contain a 'content' or 'message' field"))
    ELSE Built(Map([k \in {"content"}
                        \cup {x \in {"username", "avatar_url"} : SprintKey(em, x) # <<>>}
                        \cup {x \in {"embeds"} : Has(em, x)} |->
                    IF k = "content" THEN String(PayloadContent(em))
                    ELSE IF k = "embeds" THEN em.m[k]
                    ELSE String(SprintKey(em, k))]),
               Nil)

Extracted(url, err) == [url |-> url, err |-> err]

\* extractWebhookURL of package main: fmt.Sprint, so that null reads "<nil>"
extractWebhookURLMain(em) ==
    IF SprintKey(em, "webhookURL") # <<>> THEN Extracted(SprintKey(em, "webhookURL"), Nil)
    ELSE IF SprintKey(em, "webhook_url") # <<>> THEN Extracted(SprintKey(em, "webhook_url"), Nil)
    ELSE Extracted(<<>>, New("event must contain a 'webhookURL' or 'webhook_url'"))

\* a mutation of sendDiscordMessage that tries the POST a second time when Do fails
sendDiscordMessageRetry(url, p, o) ==
    IF TrimSpace(url) = <<>>
    THEN Result(0, <<>>, New("discord webhook URL must be provided"), <<>>, FALSE)
    ELSE IF NewRequestFails(url)
    THEN Result(0, <<>>, Errorf("failed to create request", URLError), <<>>, FALSE)
    ELSE IF o.doErr # Nil
    THEN Result(0, <<>>, WebhookError(o.doErr),
                <<Request(url, MarshalMap(p)), Request(url, MarshalMap(p))>>, FALSE)
    ELSE IF o.readErr # Nil
    THEN Result(0, <<>>, Errorf("failed to read response", o.readErr),
                <<Request(url, MarshalMap(p))>>, TRUE)
    ELSE Result(o.status, o.body, Nil, <<Request(url, MarshalMap(p))>>, TRUE)

\* a request that could not be created is passed over in silence
sendDiscordMessageSkipsBadRequest(url, p, o) ==
    IF TrimSpace(url) = <<>>
    THEN Result(0, <<>>, New("discord webhook URL must be provided"), <<>>, FALSE)
    ELSE IF NewRequestFails(url)
    THEN Result(0, <<>>, Nil, <<>>, FALSE)
    ELSE IF o.doErr # Nil
    THEN Result(0, <<>>, WebhookError(o.doErr), <<Request(url, MarshalMap(p))>>, FALSE)
    ELSE IF o.readErr # Nil
    THEN Result(0, <<>>, Errorf("failed to read response", o.readErr),
                <<Request(url, MarshalMap(p))>>, TRUE)
    ELSE Result(o.status, o.body, Nil, <<Request(url, MarshalMap(p))>>, TRUE)

\* the deferred resp.Body.Close() runs on every return after Do; its error is dropped
sendDiscordMessage(url, p, o) ==
    IF TrimSpace(url) = <<>>
    THEN Result(0, <<>>, New("discord webhook URL must be provided"), <<>>, FALSE)
    ELSE IF NewRequestFails(url)
    THEN Result(0, <<>>, Errorf("failed to create request", URLError), <<>>, FALSE)
    ELSE IF o.doErr # Nil
    THEN Result(0, <<>>, WebhookError(o.doErr), <<Request(url, MarshalMap(p))>>, FALSE)
    ELSE IF o.readErr # Nil
    THEN Result(0, <<>>, Errorf("failed to read response", o.readErr),
                <<Request(url, MarshalMap(p))>>, TRUE)
    ELSE Result(o.status, o.body, Nil, <<Request(url, MarshalMap(p))>>, TRUE)

\* the atoms that stand for the code fence (three backquotes) and the fence
\* tagged json
Fence == "[fence]"
FenceJSON == "[fence]json"

wrapAsJSONCodeBlock(data) == <<FenceJSON, "\n">> \o data \o <<"\n", Fence>>

\* a mutation of formatRequestForNotification that always renders the raw bytes
formatRequestForNotificationRawOnly(raw, em) ==
    IF Len(TrimSpace(RawText(raw))) = 0 THEN <<>>
    ELSE <<Fence, "\n">> \o TrimSpace(RawText(raw)) \o <<"\n", Fence>>

formatRequestForNotification(raw, em) ==
    IF ~em.isNil THEN wrapAsJSONCodeBlock(MarshalIndent(em))
    ELSE IF Len(TrimSpace(RawText(raw))) = 0 THEN <<>>
    ELSE IF Valid(raw) THEN wrapAsJSONCodeBlock(Indent(raw))
    ELSE <<Fence, "\n">> \o TrimSpace(RawText(raw)) \o <<"\n", Fence>>

FailedPrefix == <<"Failed to process request", ": ">>

RequestEmbed(description) ==
    [kind |-> "titled", title |-> <<"Request">>, description |-> description]

buildErrorNotificationPayload(raw, em, err) ==
    Map([k \in {"content"} \cup {x \in {"embeds"} : formatRequestForNotification(raw, em) # <<>>} |->
         IF k = "content" THEN String(FailedPrefix \o err.msg)
         ELSE Array(<<RequestEmbed(formatRequestForNotification(raw, em))>>)])

\* a mutation of notifyProcessingError that does not return early on a nil cause
notifyProcessingErrorNilCause(raw, em, err, env, o) ==
    IF TrimSpace(env) = <<>> THEN <<>>
    ELSE sendDiscordMessage(TrimSpace(env), buildErrorNotificationPayload(raw, em, err), o).reqs

\* the requests notifyProcessingError hands to the client; the result of the
\* send is dropped: _, _, _ = sendDiscordMessage(...)
notifyProcessingError(raw, em, err, env, o) ==
    IF err = Nil THEN <<>>
    ELSE IF TrimSpace(env) = <<>> THEN <<>>
    ELSE sendDiscordMessage(TrimSpace(env), buildErrorNotificationPayload(raw, em, err), o).reqs

(***************************************************************************)
(* adapter/direct.go                                                       *)
(***************************************************************************)
\* extractString(eventMap[key]): an absent key reads nil, and nil reads ""
extractString(em, key) ==
    IF ~Has(em, key) THEN <<>>
    ELSE IF em.m[key].t = "null" THEN <<>>
    ELSE TrimSpace(Sprint(em.m[key]))

\* a mutation of extractWebhookURL that looks up "webhook_url" first
extractWebhookURLSnakeFirst(em) ==
    IF extractString(em, "webhook_url") # <<>> THEN Extracted(extractString(em, "webhook_url"), Nil)
    ELSE IF extractString(em, "webhookURL") # <<>> THEN Extracted(extractString(em, "webhookURL"), Nil)
    ELSE Extracted(<<>>, New("event must contain a 'webhookURL' or 'webhook_url'"))

extractWebhookURL(em) ==
    IF extractString(em, "webhookURL") # <<>> THEN Extracted(extractString(em, "webhookURL"), Nil)
    ELSE IF extractString(em, "webhook_url") # <<>> THEN Extracted(extractString(em, "webhook_url"), Nil)
    ELSE Extracted(<<>>, New("event must contain a 'webhookURL' or 'webhook_url'"))

\* a mutation of extractFirstNonEmpty that tries the second key first
extractFirstNonEmptyLastFirst(em, key1, key2) ==
    IF extractString(em, key2) # <<>> THEN extractString(em, key2)
    ELSE extractString(em, key1)

\* extractFirstNonEmpty(eventMap, "content", "message")
extractFirstNonEmpty(em, key1, key2) ==
    IF extractString(em, key1) # <<>> THEN extractString(em, key1)
    ELSE extractString(em, key2)

Parsed(value, err) == [value |-> value, err |-> err]

\* json.Marshal of the value, then json.Unmarshal into []domain.Embed
parseEmbeds(v) ==
    IF v.t = "null" THEN Parsed(<<>>, Nil)
    ELSE IF v.t # "array" \/ \E i \in 1..Len(v.list) : v.list[i].kind \in {"number", "badfield"}
    THEN Parsed(<<>>, Errorf("embeds must be an array", JSONError))
    ELSE Parsed([i \in 1..Len(v.list) |-> Embed(v.list[i].title, v.list[i].description)], Nil)

\* a mutation of parseAllowedMentions that keeps an all-empty policy
parseAllowedMentionsKeepEmpty(v) ==
    IF v.t = "null" THEN Parsed(NilMentions, Nil)
    ELSE IF v.t # "object" \/ v.obj.kind = "badfield"
    THEN Parsed(NilMentions, Errorf("allowed_mentions must follow Discord schema", JSONError))
    ELSE Parsed(Mentions(v.obj.parse, v.obj.users, v.obj.roles, v.obj.replied_user), Nil)

\* json.Marshal of the value, then json.Unmarshal into domain.AllowedMentions
parseAllowedMentions(v) ==
    IF v.t = "null" THEN Parsed(NilMentions, Nil)
    ELSE IF v.t # "object" \/ v.obj.kind = "badfield"
    THEN Parsed(NilMentions, Errorf("allowed_mentions must follow Discord schema", JSONError))
    ELSE IF IsZero(Mentions(v.obj.parse, v.obj.users, v.obj.roles, v.obj.replied_user))
    THEN Parsed(NilMentions, Nil)
    ELSE Parsed(Mentions(v.obj.parse, v.obj.users, v.obj.roles, v.obj.replied_user), Nil)

Transformed(p, em, err) == [payload |-> p, eventMap |-> em, err |-> err]

\* the fallback is taken as it is written
TransformTargetRawFallback(em, fallback) ==
    IF extractWebhookURL(em).err = Nil THEN extractWebhookURL(em).url
    ELSE fallback

\* the target Transform settles on (lines 26-33); <<>> when there is none
TransformTarget(em, fallback) ==
    IF extractWebhookURL(em).err = Nil THEN extractWebhookURL(em).url
    ELSE TrimSpace(fallback)

ContentMissing == New("event must contain a 'content' or 'message' field")

\* a mutation of Transform that lets embeds stand in for the content, as
\* NotificationPayload.Validate does
TransformBodyEmbedsSuffice(em, url) ==
    IF extractFirstNonEmpty(em, "content", "message") = <<>>
       /\ ~(Has(em, "embeds") /\ parseEmbeds(em.m["embeds"]).err = Nil
            /\ Len(parseEmbeds(em.m["embeds"]).value) > 0)
    THEN Transformed(ZeroPayload, em, ContentMissing)
    ELSE Transformed(
            [WebhookURL |-> url,
             Content |-> extractFirstNonEmpty(em, "content", "message"),
             Embeds |-> IF Has(em, "embeds") THEN parseEmbeds(em.m["embeds"]).value ELSE <<>>,
             AllowedMentions |-> NilMentions,
             Username |-> extractString(em, "username"),
             AvatarURL |-> extractString(em, "avatar_url")],
            em, Nil)

\* the errors of the embeds and of the allowed mentions come without the
\* mapping
TransformBodyDropsMap(em, url) ==
    IF extractFirstNonEmpty(em, "content", "message") = <<>>
    THEN Transformed(ZeroPayload, em, ContentMissing)
    ELSE IF Has(em, "embeds") /\ parseEmbeds(em.m["embeds"]).err # Nil
    THEN Transformed(ZeroPayload, NilMap, parseEmbeds(em.m["embeds"]).err)
    ELSE IF Has(em, "allowed_mentions") /\ parseAllowedMentions(em.m["allowed_mentions"]).err # Nil
    THEN Transformed(ZeroPayload, NilMap, parseAllowedMentions(em.m["allowed_mentions"]).err)
    ELSE Transformed(
            [WebhookURL |-> url,
             Content |-> extractFirstNonEmpty(em, "content", "message"),
             Embeds |-> IF Has(em, "embeds") THEN parseEmbeds(em.m["embeds"]).value ELSE <<>>,
             AllowedMentions |-> IF Has(em, "allowed_mentions")
                                 THEN parseAllowedMentions(em.m["allowed_mentions"]).value
                                 ELSE NilMentions,
             Username |-> extractString(em, "username"),
             AvatarURL |-> extractString(em, "avatar_url")],
            em, Nil)

\* lines 35-68 of Transform, once the target is settled
TransformBody(em, url) ==
    IF extractFirstNonEmpty(em, "content", "message") = <<>>
    THEN Transformed(ZeroPayload, em, ContentMissing)
    ELSE IF Has(em, "embeds") /\ parseEmbeds(em.m["embeds"]).err # Nil
    THEN Transformed(ZeroPayload, em, parseEmbeds(em.m["embeds"]).err)
    ELSE IF Has(em, "allowed_mentions") /\ parseAllowedMentions(em.m["allowed_mentions"]).err # Nil
    THEN Transformed(ZeroPayload, em, parseAllowedMentions(em.m["allowed_mentions"]).err)
    ELSE Transformed(
            [WebhookURL |-> url,
             Content |-> extractFirstNonEmpty(em, "content", "message"),
             Embeds |-> IF Has(em, "embeds") THEN parseEmbeds(em.m["embeds"]).value ELSE <<>>,
             AllowedMentions |-> IF Has(em, "allowed_mentions")
                                 THEN parseAllowedMentions(em.m["allowed_mentions"]).value
                                 ELSE NilMentions,
             Username |-> extractString(em, "username"),
             AvatarURL |-> extractString(em, "avatar_url")],
            em, Nil)

\* DirectAdapter.Transform; fallback is os.Getenv("WEBHOOK_URL")
Transform(raw, fallback) ==
    IF normaliseEvent(raw).err # Nil THEN Transformed(ZeroPayload, NilMap, normaliseEvent(raw).err)
    ELSE IF TransformTarget(normaliseEvent(raw).eventMap, fallback) = <<>>
    THEN Transformed(ZeroPayload, normaliseEvent(raw).eventMap,
                     extractWebhookURL(normaliseEvent(raw).eventMap).err)
    ELSE TransformBody(normaliseEvent(raw).eventMap,
                       TransformTarget(normaliseEvent(raw).eventMap, fallback))

(***************************************************************************)
(* adapter/cloudwatch_sns.go                                               *)
(*                                                                         *)
(* Text that is compared without regard to case (the state of the alarm)   *)
(* is written one letter per atom, so that ToUpper and ToLower are         *)
(* computed.                                                               *)
(***************************************************************************)
LowerLetters ==
    <<"a", "b", "c", "d", "e", "f", "g", "h", "i", "j", "k", "l", "m",
      "n", "o", "p", "q", "r", "s", "t", "u", "v", "w", "x", "y", "z">>

UpperLetters ==
    <<"A", "B", "C", "D", "E", "F", "G", "H", "I", "J", "K", "L", "M",
      "N", "O", "P", "Q", "R", "S", "T", "U", "V", "W", "X", "Y", "Z">>

ToUpperAtom(a) ==
    IF \E i \in 1..Len(LowerLetters) : LowerLetters[i] = a
    THEN UpperLetters[CHOOSE i \in 1..Len(LowerLetters) : LowerLetters[i] = a]
    ELSE a

ToLowerAtom(a) ==
    IF \E i \in 1..Len(UpperLetters) : UpperLetters[i] = a
    THEN LowerLetters[CHOOSE i \in 1..Len(UpperLetters) : UpperLetters[i] = a]
    ELSE a

\* strings.ToUpper, strings.ToLower
ToUpper(s) == [i \in 1..Len(s) |-> ToUpperAtom(s[i])]
ToLower(s) == [i \in 1..Len(s) |-> ToLowerAtom(s[i])]

\* cloudWatchDimension
Dimension(name, value) == [Name |-> name, Value |-> value]

\* cloudWatchTrigger
Trigger(metric, namespace, statType, stat, period, evalPeriods, op, threshold, missing, dims) ==
    [MetricName |-> metric, Namespace |-> namespace, StatisticType |-> statType,
     Statistic |-> stat, Period |-> period, EvaluationPeriods |-> evalPeriods,
     ComparisonOperator |-> op, Threshold |-> threshold, TreatMissingData |-> missing,
     Dimensions |-> dims]

ZeroTrigger == Trigger(<<>>, <<>>, <<>>, <<>>, 0, 0, <<>>, <<>>, <<>>, <<>>)

\* cloudWatchAlarm
Alarm(name, description, account, newState, reason, time, region, arn, oldState, trigger) ==
    [AlarmName |-> name, AlarmDescription |-> description, AWSAccountID |-> account,
     NewStateValue |-> newState, NewStateReason |-> reason, StateChangeTime |-> time,
     Region |-> region, AlarmArn |-> arn, OldStateValue |-> oldState, Trigger |-> trigger]

\* cloudWatchAlarm{}
ZeroAlarm == Alarm(<<>>, <<>>, <<>>, <<>>, <<>>, <<>>, <<>>, <<>>, <<>>, ZeroTrigger)

\* the JSON text of a dimension, a trigger and an alarm whose unset fields are
\* left out
DimensionText(d) ==
    Object(<<Member("name", MarshalString(d.Name)), Member("value", MarshalString(d.Value))>>)

TriggerText(t) ==
    Object(Keep(<<
        <<t.MetricName # <<>>, Member("MetricName", MarshalString(t.MetricName))>>,
        <<t.Namespace # <<>>, Member("Namespace", MarshalString(t.Namespace))>>,
        <<t.StatisticType # <<>>, Member("StatisticType", MarshalString(t.StatisticType))>>,
        <<t.Statistic # <<>>, Member("Statistic", MarshalString(t.Statistic))>>,
        <<t.Period # 0, Member("Period", <<ToString(t.Period)>>)>>,
        <<t.EvaluationPeriods # 0, Member("EvaluationPeriods", <<ToString(t.EvaluationPeriods)>>)>>,
        <<t.ComparisonOperator # <<>>,
          Member("ComparisonOperator", MarshalString(t.ComparisonOperator))>>,
        <<t.Threshold # <<>>, Member("Threshold", MarshalString(t.Threshold))>>,
        <<t.TreatMissingData # <<>>, Member("TreatMissingData", MarshalString(t.TreatMissingData))>>,
        <<Len(t.Dimensions) > 0,
          Member("Dimensions", <<"[">>
              \o Join([i \in 1..Len(t.Dimensions) |-> DimensionText(t.Dimensions[i])], <<",">>)
              \o <<"]">>)>> >>))

AlarmText(a) ==
    Object(Keep(<<
        <<a.AlarmName # <<>>, Member("AlarmName", MarshalString(a.AlarmName))>>,
        <<a.AlarmDescription # <<>>, Member("AlarmDescription", MarshalString(a.AlarmDescription))>>,
        <<a.AWSAccountID # <<>>, Member("AWSAccountId", MarshalString(a.AWSAccountID))>>,
        <<a.NewStateValue # <<>>, Member("NewStateValue", MarshalString(a.NewStateValue))>>,
        <<a.NewStateReason # <<>>, Member("NewStateReason", MarshalString(a.NewStateReason))>>,
        <<a.StateChangeTime # <<>>, Member("StateChangeTime", MarshalString(a.StateChangeTime))>>,
        <<a.Region # <<>>, Member("Region", MarshalString(a.Region))>>,
        <<a.AlarmArn # <<>>, Member("AlarmArn", MarshalString(a.AlarmArn))>>,
        <<a.OldStateValue # <<>>, Member("OldStateValue", MarshalString(a.OldStateValue))>>,
        <<a.Trigger # ZeroTrigger, Member("Trigger", TriggerText(a.Trigger))>> >>))

(***************************************************************************)
(* the raw event handed to the alarm adapter                               *)
(*                                                                         *)
(* A document [kind, alarm] is a JSON text: an object of the alarm schema  *)
(* ("alarm"), such an object whose AlarmName is a number ("badfield"),     *)
(* null, a number, an array, text that is not JSON ("invalid"), a blank or *)
(* no text at all ("empty"), or an object with none of the alarm's fields  *)
(* ("other").  The event [shape, doc, pad] holds the                       *)
(* document bare, as the content of a JSON string, or as the message of    *)
(* the first record of a fan-out envelope ("envelope"; "norecords" is an   *)
(* envelope without records); "empty" and "blank" events hold nothing.     *)
(* A "stringenvelope" event is a JSON string whose content is such an      *)
(* envelope; an "objenvelope" event is an envelope whose message is the    *)
(* document itself, not a string of it.                                    *)
(***************************************************************************)
Doc(kind, alarm) == [kind |-> kind, alarm |-> alarm]

DocText(doc) ==
    CASE doc.kind = "alarm" -> AlarmText(doc.alarm)
      [] doc.kind = "badfield" -> Object(<<Member("AlarmName", <<"5">>)>>)
      [] doc.kind = "null" -> <<"null">>
      [] doc.kind = "number" -> <<"123">>
      [] doc.kind = "array" -> <<"[", "1", ",", "2", "]">>
      [] doc.kind = "blank" -> <<" ">>
      [] doc.kind = "empty" -> <<>>
      [] doc.kind = "other" -> Object(<<Member("content", MarshalString(<<"hello">>))>>)
      [] OTHER -> <<"{", "oops">>

AlarmRaw(shape, doc, pad) == [shape |-> shape, doc |-> doc, pad |-> pad]

\* {"Records":[{"Sns":{"Message":"..."}}]}
EnvelopeText(message) ==
    Object(<<Member("Records",
                    <<"[">> \o Object(<<Member("Sns",
                                               Object(<<Member("Message",
                                                               MarshalString(message))>>))>>)
                    \o <<"]">>)>>)

AlarmCoreText(raw) ==
    CASE raw.shape = "bare" -> TrimSpace(DocText(raw.doc))
      [] raw.shape = "string" -> MarshalString(DocText(raw.doc))
      [] raw.shape = "envelope" -> EnvelopeText(DocText(raw.doc))
      [] raw.shape = "norecords" -> Object(<<Member("Records", <<"[", "]">>)>>)
      [] raw.shape = "stringenvelope" -> MarshalString(EnvelopeText(DocText(raw.doc)))
      [] raw.shape = "objenvelope" ->
            Object(<<Member("Records",
                            <<"[">> \o Object(<<Member("Sns",
                                                       Object(<<Member("Message",
                                                                       DocText(raw.doc))>>))>>)
                            \o <<"]">>)>>)
      [] OTHER -> <<>>

\* the bytes of the event
AlarmRawText(raw) ==
    IF raw.shape = "empty" THEN <<>>
    ELSE IF raw.shape = "blank" THEN <<" ", "\n">>
    ELSE IF raw.pad THEN <<" ">> \o AlarmCoreText(raw) \o <<"\n">>
    ELSE AlarmCoreText(raw)

\* the event is a JSON string, or null, which json.Unmarshal reads into a
\* string without error and without changing it
DecodesAsString(raw) ==
    raw.shape \in {"string", "stringenvelope"} \/ (raw.shape = "bare" /\ raw.doc.kind = "null")

\* the event is an object that json.Unmarshal reads into an snsEnvelope: any
\* object whose "Records", if it has one, is of the envelope's form
DecodesAsEnvelope(raw) ==
    \/ raw.shape \in {"envelope", "norecords"}
    \/ raw.shape = "bare" /\ raw.doc.kind \in {"alarm", "badfield", "other"}

\* a message: its bytes, and the document they are.  The bytes of an
\* envelope are, to decodeAlarm, an object with none of the alarm's fields
Message(text, doc, err) == [text |-> text, doc |-> doc, err |-> err]

EnvelopeDoc == Doc("envelope", ZeroAlarm)

\* the content of a JSON string that is an envelope is read as an envelope in
\* its turn
extractAlarmMessageUnwrapTwice(raw) ==
    IF Len(TrimSpace(AlarmRawText(raw))) = 0
    THEN Message(<<>>, Doc("empty", ZeroAlarm), New("cloudwatch alarm message is empty"))
    ELSE IF DecodesAsString(raw)
    THEN IF raw.shape = "string"
         THEN Message(TrimSpace(UnmarshalString(TrimSpace(AlarmRawText(raw)))), raw.doc, Nil)
         ELSE IF raw.shape = "stringenvelope" /\ DocText(raw.doc) # <<>>
         THEN Message(DocText(raw.doc), raw.doc, Nil)
         ELSE Message(<<>>, Doc("empty", ZeroAlarm), Nil)
    ELSE IF DecodesAsEnvelope(raw) /\ raw.shape = "envelope" /\ DocText(raw.doc) # <<>>
    THEN Message(DocText(raw.doc), raw.doc, Nil)
    ELSE Message(TrimSpace(AlarmRawText(raw)),
                 IF raw.shape \in {"envelope", "norecords", "objenvelope"}
                 THEN EnvelopeDoc ELSE raw.doc,
                 Nil)

extractAlarmMessage(raw) ==
    IF Len(TrimSpace(AlarmRawText(raw))) = 0
    THEN Message(<<>>, Doc("empty", ZeroAlarm), New("cloudwatch alarm message is empty"))
    \* json.Unmarshal(trimmed, &asString)
    ELSE IF DecodesAsString(raw)
    THEN IF raw.shape \in {"string", "stringenvelope"}
         THEN Message(TrimSpace(UnmarshalString(TrimSpace(AlarmRawText(raw)))),
                      IF TrimSpace(UnmarshalString(TrimSpace(AlarmRawText(raw))))
                             = TrimSpace(DocText(raw.doc))
                      THEN raw.doc
                      ELSE IF TrimSpace(UnmarshalString(TrimSpace(AlarmRawText(raw))))
                                  = EnvelopeText(DocText(raw.doc))
                      THEN EnvelopeDoc ELSE Doc("invalid", ZeroAlarm),
                      Nil)
         ELSE Message(<<>>, Doc("empty", ZeroAlarm), Nil)
    \* json.Unmarshal(trimmed, &envelope)
    ELSE IF DecodesAsEnvelope(raw) /\ raw.shape = "envelope" /\ DocText(raw.doc) # <<>>
    THEN Message(DocText(raw.doc), raw.doc, Nil)
    ELSE Message(TrimSpace(AlarmRawText(raw)),
                 IF raw.shape \in {"envelope", "norecords", "objenvelope"}
                 THEN EnvelopeDoc ELSE raw.doc,
                 Nil)

Decoded(alarm, err) == [alarm |-> alarm, err |-> err]

decodeAlarm(message) ==
    IF Len(TrimSpace(message.text)) = 0
    THEN Decoded(ZeroAlarm, New("cloudwatch alarm payload is empty"))
    \* json.Unmarshal(trimmed, &alarm): an object, whose unknown members are
    \* skipped, or null, which leaves the alarm as it is
    ELSE IF message.doc.kind = "alarm" THEN Decoded(message.doc.alarm, Nil)
    ELSE IF message.doc.kind \in {"envelope", "null", "other"} THEN Decoded(ZeroAlarm, Nil)
    ELSE Decoded(ZeroAlarm, Errorf("failed to decode cloudwatch alarm", JSONError))

\* fmt.Sprintf("%q", s)
GoQuote(s) == <<Quote>> \o Escape(s) \o <<Quote>>

Unknown == <<"u", "n", "k", "n", "o", "w", "n">>

buildAlarmSummary(alarm) ==
    <<":rotating_light:", " ", "CloudWatch", " ", "alarm", " ">> \o GoQuote(alarm.AlarmName)
    \o <<" ", "is", " ">>
    \o (IF ToLower(TrimSpace(alarm.NewStateValue)) = <<>> THEN Unknown
        ELSE ToLower(TrimSpace(alarm.NewStateValue)))

buildAlarmDescription(alarm) ==
    IF TrimSpace(alarm.NewStateReason) # <<>> THEN TrimSpace(alarm.NewStateReason)
    ELSE <<"CloudWatch", " ", "reported", " ", "a", " ", "state", " ", "change.">>

\* stands for the separator " · " of strings.Join(parts, " · ")
Middot == <<" ", "[middot]", " ">>

buildMetricSummary(t) ==
    Join(Keep(<<
        <<t.MetricName # <<>>,
          IF t.Namespace # <<>> THEN t.Namespace \o <<"/">> \o t.MetricName ELSE t.MetricName>>,
        <<t.StatisticType # <<>> \/ t.Statistic # <<>>,
          IF t.StatisticType # <<>> THEN t.StatisticType ELSE t.Statistic>>,
        <<t.ComparisonOperator # <<>> /\ TrimSpace(t.Threshold) # <<>>,
          t.ComparisonOperator \o <<" ">> \o TrimSpace(t.Threshold)>>,
        <<t.EvaluationPeriods > 0, <<"for", " ", ToString(t.EvaluationPeriods), " ", "periods">> >>,
        <<t.Period > 0, <<"period:", " ", ToString(t.Period) \o "s">> >>,
        <<t.TreatMissingData # <<>>, <<"missing", " ", "data:", " ">> \o t.TreatMissingData>> >>),
        Middot)

buildDimensionsSummary(dims) ==
    Join(Keep([i \in 1..Len(dims) |->
                 <<TrimSpace(dims[i].Name) # <<>> /\ TrimSpace(dims[i].Value) # <<>>,
                   TrimSpace(dims[i].Name) \o <<"=">> \o TrimSpace(dims[i].Value)>>]),
         <<",", " ">>)

EmbedField(name, value, inline) == [Name |-> name, Value |-> value, Inline |-> inline]

\* appendField drops a field whose trimmed value is empty
buildAlarmFields(alarm) ==
    Keep(<<
        <<TrimSpace(alarm.AWSAccountID) # <<>>,
          EmbedField(<<"Account">>, TrimSpace(alarm.AWSAccountID), TRUE)>>,
        <<TrimSpace(alarm.Region) # <<>>, EmbedField(<<"Region">>, TrimSpace(alarm.Region), TRUE)>>,
        <<TrimSpace(alarm.OldStateValue) # <<>>,
          EmbedField(<<"Old", " ", "State">>, TrimSpace(alarm.OldStateValue), TRUE)>>,
        <<TrimSpace(alarm.NewStateValue) # <<>>,
          EmbedField(<<"New", " ", "State">>, TrimSpace(alarm.NewStateValue), TRUE)>>,
        <<TrimSpace(alarm.AlarmArn) # <<>>,
          EmbedField(<<"Alarm", " ", "ARN">>, TrimSpace(alarm.AlarmArn), FALSE)>>,
        <<TrimSpace(buildMetricSummary(alarm.Trigger)) # <<>>,
          EmbedField(<<"Trigger">>, TrimSpace(buildMetricSummary(alarm.Trigger)), FALSE)>>,
        <<TrimSpace(buildDimensionsSummary(alarm.Trigger.Dimensions)) # <<>>,
          EmbedField(<<"Dimensions">>,
                     TrimSpace(buildDimensionsSummary(alarm.Trigger.Dimensions)), FALSE)>> >>)

\* 0xE74C3C and 0x2ECC71
ColorAlarm == 15158332
ColorOK == 3066993

StateALARM == <<"A", "L", "A", "R", "M">>
StateOK == <<"O", "K">>

\* a mutation of the colour switch that looks at the state as it stands
AlarmColorExact(alarm) ==
    IF alarm.NewStateValue = StateALARM THEN ColorAlarm
    ELSE IF alarm.NewStateValue = StateOK THEN ColorOK
    ELSE 0

\* lines 48-53: the colour of the embed
AlarmColor(alarm) ==
    IF ToUpper(TrimSpace(alarm.NewStateValue)) = StateALARM THEN ColorAlarm
    ELSE IF ToUpper(TrimSpace(alarm.NewStateValue)) = StateOK THEN ColorOK
    ELSE 0

\* lines 42-56: the embed
AlarmEmbed(alarm) ==
    [Title |-> alarm.AlarmName,
     Description |-> buildAlarmDescription(alarm),
     Color |-> AlarmColor(alarm),
     Fields |-> buildAlarmFields(alarm),
     Footer |-> IF TrimSpace(alarm.AlarmDescription) # <<>>
                THEN [set |-> TRUE, Text |-> TrimSpace(alarm.AlarmDescription)]
                ELSE NoFooter,
     Timestamp |-> alarm.StateChangeTime]

\* lines 59-62: the message as a generic mapping.  An object gives its
\* members, kept as the document; null is read without error and leaves the
\* map nil; anything else gives the map {"raw": message}, kept as a document
\* of kind "raw"
AlarmEventMap(message) ==
    IF message.doc.kind = "null" THEN [isNil |-> TRUE, doc |-> message.doc]
    ELSE IF message.doc.kind \in {"alarm", "badfield", "envelope", "other"}
    THEN [isNil |-> FALSE, doc |-> message.doc]
    ELSE [isNil |-> FALSE, doc |-> Doc("raw", ZeroAlarm)]

NoAlarmMap == [isNil |-> TRUE, doc |-> Doc("empty", ZeroAlarm)]

\* a mutation of Transform that leaves the mention policy unset
CloudWatchPayloadNoPolicy(url, alarm) ==
    [WebhookURL |-> url,
     Content |-> buildAlarmSummary(alarm),
     Embeds |-> <<AlarmEmbed(alarm)>>,
     AllowedMentions |-> NilMentions,
     Username |-> <<>>,
     AvatarURL |-> <<>>]

\* lines 36-57: the notification
CloudWatchPayload(url, alarm) ==
    [WebhookURL |-> url,
     Content |-> buildAlarmSummary(alarm),
     Embeds |-> <<AlarmEmbed(alarm)>>,
     AllowedMentions |-> NoMentions,
     Username |-> <<>>,
     AvatarURL |-> <<>>]

RequiresWebhookURL == New("cloudwatch adapter requires webhook url")

\* a mutation of Transform that looks at the event before the target
CloudWatchTransformEventFirst(raw, configured) ==
    IF extractAlarmMessage(raw).err # Nil
    THEN Transformed(ZeroPayload, NoAlarmMap, extractAlarmMessage(raw).err)
    ELSE IF decodeAlarm(extractAlarmMessage(raw)).err # Nil
    THEN Transformed(ZeroPayload, NoAlarmMap, decodeAlarm(extractAlarmMessage(raw)).err)
    ELSE IF TrimSpace(TrimSpace(configured)) = <<>>
    THEN Transformed(ZeroPayload, NoAlarmMap, RequiresWebhookURL)
    ELSE Transformed(CloudWatchPayload(TrimSpace(configured),
                                       decodeAlarm(extractAlarmMessage(raw)).alarm),
                     AlarmEventMap(extractAlarmMessage(raw)), Nil)

\* NewCloudWatchSNSAdapter(configured).Transform(raw)
CloudWatchTransform(raw, configured) ==
    IF TrimSpace(TrimSpace(configured)) = <<>>
    THEN Transformed(ZeroPayload, NoAlarmMap, RequiresWebhookURL)
    ELSE IF extractAlarmMessage(raw).err # Nil
    THEN Transformed(ZeroPayload, NoAlarmMap, extractAlarmMessage(raw).err)
    ELSE IF decodeAlarm(extractAlarmMessage(raw)).err # Nil
    THEN Transformed(ZeroPayload, NoAlarmMap, decodeAlarm(extractAlarmMessage(raw)).err)
    ELSE Transformed(CloudWatchPayload(TrimSpace(configured),
                                       decodeAlarm(extractAlarmMessage(raw)).alarm),
                     AlarmEventMap(extractAlarmMessage(raw)), Nil)

(***************************************************************************)
(* the selection of the adapter (package main, ADAPTER_TYPE)               *)
(*                                                                         *)
(* The value of ADAPTER_TYPE is written one letter per atom.  The event    *)
(* is held as both adapters read it: raw for the direct adapter, alarm for *)
(* the alarm adapter; env is the value of WEBHOOK_URL, the fallback of the *)
(* one and the target of the other.                                        *)
(***************************************************************************)
AdapterDirect == <<"d", "i", "r", "e", "c", "t">>
AdapterCloudWatch == <<"c", "l", "o", "u", "d", "w", "a", "t", "c", "h">>

\* the error for a value that names no adapter
UnsupportedAdapterError(adapterType) ==
    [type |-> "UnsupportedAdapterError",
     msg |-> <<"unsupported adapter type", ": ">> \o adapterType]

\* the selection compares the value as it is written
selectAdapterExact(adapterType) ==
    IF adapterType = <<>> \/ adapterType = AdapterDirect THEN "direct"
    ELSE IF adapterType = AdapterCloudWatch THEN "cloudwatch"
    ELSE "unsupported"

\* the adapter a value of ADAPTER_TYPE selects
selectAdapter(adapterType) ==
    IF ToLower(TrimSpace(adapterType)) = <<>> THEN "direct"
    ELSE IF ToLower(TrimSpace(adapterType)) = AdapterDirect THEN "direct"
    ELSE IF ToLower(TrimSpace(adapterType)) = AdapterCloudWatch THEN "cloudwatch"
    ELSE "unsupported"

buildNotificationPayload(adapterType, raw, alarm, env) ==
    IF selectAdapter(adapterType) = "direct" THEN Transform(raw, env)
    ELSE IF selectAdapter(adapterType) = "cloudwatch" THEN CloudWatchTransform(alarm, env)
    ELSE Transformed(ZeroPayload, NilMap, UnsupportedAdapterError(adapterType))

(***************************************************************************)
(* inputs                                                                  *)
(***************************************************************************)
\* the largest number of embeds in a payload handed to Send
MaxEmbeds == 2

HookURL == <<"https://discord.example/hook">>
AltURL == <<"https://discord.example/alt">>
FallbackURL == <<"https://discord.example/fallback">>
ErrorURL == <<"https://discord.example/error">>

Absent == [present |-> FALSE, v |-> Null]
Present(v) == [present |-> TRUE, v |-> v]

\* the map with the members that are present
MkMap(opts) == [k \in {x \in DOMAIN opts : opts[x].present} |-> opts[k].v]

NoMembers == [k \in {} |-> Null]

ExampleEmbeds == Array(<<Element("object", <<"Example">>)>>)

\* what the HTTP client may do with a request
Boom == New("boom")
ReadFailure == New("unexpected EOF")
CloseFailure == New("close failed")

Outcomes ==
    {Outcome(Boom, 0, <<>>, Nil, Nil),
     Outcome(Nil, 204, <<>>, Nil, Nil),
     Outcome(Nil, 202, <<"ok">>, Nil, Nil),
     Outcome(Nil, 404, <<Quote, "Unknown Webhook", Quote>>, Nil, Nil),
     Outcome(Nil, 500, <<"error">>, Nil, Nil),
     Outcome(Nil, 200, <<"ok">>, ReadFailure, Nil),
     Outcome(Nil, 200, <<"ok">>, Nil, CloseFailure),
     Outcome(Nil, 200, <<"ok">>, ReadFailure, CloseFailure)}

\* the events handed to HandleRequest
HandlerMaps ==
    {MkMap([webhookURL |-> a, webhook_url |-> b, content |-> c, message |-> d, embeds |-> e]) :
        a \in {Absent, Present(String(HookURL)), Present(String(<<" ">>)), Present(Null),
               Present(String(<<MalformedURL>>))},
        b \in {Absent, Present(String(<<" ">> \o AltURL \o <<" ">>))},
        c \in {Absent, Present(String(<<"hello">>)), Present(String(<<" ">>)),
               Present(String(<<"missing", " ", "webhook">>))},
        d \in {Absent, Present(String(<<"fallback">>))},
        e \in {Absent, Present(ExampleEmbeds)}}

HandlerEvents ==
    {Raw("object", "", m, FALSE) : m \in HandlerMaps}
    \cup {Raw("object", "", m, TRUE) : m \in {x \in HandlerMaps : DOMAIN x \subseteq {"webhookURL", "content"}}}
    \cup {Raw("string", "object", m, FALSE) :
            m \in {x \in HandlerMaps : DOMAIN x \subseteq {"webhook_url", "message"}}}
    \cup {Raw("string", i, NoMembers, FALSE) : i \in {"empty", "blank", "null", "number", "invalid"}}
    \cup {Raw(sh, "", NoMembers, pad) :
            sh \in {"number", "array", "bool", "null", "invalid"}, pad \in BOOLEAN}
    \cup {Raw("empty", "", NoMembers, FALSE), Raw("blank", "", NoMembers, FALSE)}

\* the values of ERROR_WEBHOOK_URL
ErrorWebhooks ==
    {<<>>, <<" ">>, ErrorURL, <<" ">> \o ErrorURL \o <<"\n">>, <<MalformedURL>>}

\* the payloads handed to Send
SomeEmbeds ==
    {[i \in 1..n |-> IF i = 1 THEN Embed(<<"Example">>, <<>>) ELSE Embed(<<>>, <<"more">>)] :
        n \in 0..MaxEmbeds}

SendPayloads ==
    {[WebhookURL |-> u, Content |-> c, Embeds |-> e, AllowedMentions |-> a, Username |-> n,
      AvatarURL |-> v] :
        u \in {<<>>, <<" ">>, HookURL, <<" ">> \o HookURL, <<MalformedURL>>},
        c \in {<<>>, <<" ">>, <<"hello">>, <<"say", " ", Quote, "hi", Quote>>},
        e \in SomeEmbeds,
        a \in {NilMentions, NoMentions, Mentions(<<<<"users">>>>, <<<<"123">>>>, <<>>, TRUE)},
        n \in {<<>>, <<" ">>, <<"bot">>},
        v \in {<<>>, <<"https://example.com/avatar.png">>}}

\* the events and the values of WEBHOOK_URL handed to the direct adapter
DirectMaps ==
    {MkMap([webhookURL |-> a, webhook_url |-> b, content |-> c, message |-> d, username |-> n,
            embeds |-> e, allowed_mentions |-> am]) :
        a \in {Absent, Present(String(HookURL)), Present(String(<<" ">>)), Present(Null)},
        b \in {Absent, Present(String(<<" ">> \o AltURL \o <<" ">>)), Present(String(<<>>)),
               Present(Number("42"))},
        c \in {Absent, Present(String(<<" ", "hello", " ">>)), Present(String(<<" ">>)),
               Present(Number("42"))},
        d \in {Absent, Present(String(<<"fallback">>))},
        n \in {Absent, Present(String(<<"bot">>))},
        e \in {Absent, Present(ExampleEmbeds), Present(String(<<"nope">>)),
               Present(Array(<<Element("badfield", <<>>)>>))},
        am \in {Absent, Present(MentionsObject("object", <<>>, <<>>, <<>>, FALSE)),
                Present(MentionsObject("object", <<<<"users">>>>, <<<<"123">>>>, <<>>, TRUE)),
                Present(MentionsObject("object", <<>>, <<>>, <<>>, TRUE)),
                Present(MentionsObject("badfield", <<>>, <<>>, <<>>, FALSE))}}

DirectEvents ==
    {Raw("object", "", m, FALSE) : m \in DirectMaps}
    \cup {Raw("string", "object", m, TRUE) :
            m \in {x \in DirectMaps : DOMAIN x \subseteq {"webhookURL", "webhook_url", "message"}}}
    \cup {Raw("string", i, m, FALSE) :
            i \in {"padobject", "wrapped"},
            m \in {x \in DirectMaps : DOMAIN x \subseteq {"webhookURL", "message"}}}
    \cup {Raw("string", i, NoMembers, FALSE) : i \in {"empty", "blank", "null", "number", "invalid"}}
    \cup {Raw(sh, "", NoMembers, FALSE) :
            sh \in {"empty", "blank", "number", "array", "bool", "null", "invalid"}}

Fallbacks == {<<>>, <<" ">>, FallbackURL, <<" ">> \o FallbackURL \o <<"\n">>}

\* the alarms, the events and the configured targets handed to the alarm adapter
AlarmURL == <<"https://discord.example/cloudwatch">>

SampleTrigger ==
    Trigger(<<"CPUUtilization">>, <<"AWS/EC2">>, <<"Statistic">>, <<"AVERAGE">>, 60, 1,
            <<"GreaterThanThreshold">>, <<"80">>, <<"missing">>,
            <<Dimension(<<"InstanceId">>, <<"i-1234567890abcdef0">>)>>)

\* triggers with some of their parts missing or of whitespace only
Triggers ==
    {Trigger(<<"CPUUtilization">>, <<>>, <<>>, <<>>, 0, 0, <<>>, <<>>, <<>>, <<>>),
     Trigger(<<>>, <<"AWS/EC2">>, <<>>, <<"AVERAGE">>, 0, 0, <<>>, <<>>, <<>>, <<>>),
     Trigger(<<"CPUUtilization">>, <<"AWS/EC2">>, <<>>, <<>>, 0, 2,
             <<"GreaterThanThreshold">>, <<>>, <<>>, <<>>),
     Trigger(<<"CPUUtilization">>, <<"AWS/EC2">>, <<>>, <<>>, 300, 0,
             <<>>, <<"80">>, <<"breaching">>, <<>>),
     Trigger(<<>>, <<>>, <<>>, <<>>, 0, 0, <<"LessThanThreshold">>, <<"0.5">>, <<>>, <<>>),
     Trigger(<<"CPUUtilization">>, <<" ">>, <<>>, <<>>, 0, 0, <<>>, <<>>, <<>>, <<>>),
     Trigger(<<" ">>, <<"AWS/EC2">>, <<>>, <<>>, 60, 0, <<>>, <<>>, <<>>, <<>>),
     Trigger(<<"CPUUtilization">>, <<>>, <<" ">>, <<"AVERAGE">>, 0, 0, <<>>, <<>>, <<>>, <<>>),
     Trigger(<<"CPUUtilization">>, <<>>, <<>>, <<>>, 0, 0, <<"\t">>, <<"80">>, <<>>, <<>>),
     Trigger(<<"CPUUtilization">>, <<>>, <<>>, <<>>, 0, 1, <<>>, <<>>, <<" ">>, <<>>)}

AlarmStates ==
    {StateALARM, <<" ", "a", "l", "a", "r", "m", "\n">>, <<"A", "l", "a", "r", "m">>,
     StateOK, <<"O", "k">>, <<"\t", "o", "k">>,
     <<"O", "K", "A", "Y">>, <<"A", "L", "A", "R", "M", "S">>, <<"A", "L", " ", "A", "R", "M">>,
     <<>>, <<" ">>}

Alarms ==
    {Alarm(n, d, <<>>, st, <<>>, <<>>, <<>>, <<>>, <<>>, ZeroTrigger) :
        n \in {<<"CPUHigh">>, <<>>},
        d \in {<<>>, <<"CPU", " ", "usage", " ", "is", " ", "high">>},
        st \in AlarmStates}
    \cup {Alarm(n, <<"CPU", " ", "usage", " ", "is", " ", "high">>, <<"123456789012">>, st,
                <<"Threshold", " ", "Crossed">>, <<"2024-01-02T03:04:05.678Z">>, <<"us-east-1">>,
                <<"arn:aws:cloudwatch:us-east-1:123456789012:alarm:CPUHigh">>, StateOK,
                SampleTrigger) :
            n \in {<<"CPUHigh">>, <<>>}, st \in AlarmStates}
    \cup {Alarm(<<"CPUHigh">>, <<>>, <<>>, StateALARM, <<>>, <<>>, <<>>, <<>>, <<>>, t) :
            t \in Triggers}

AlarmEvents ==
    {AlarmRaw(sh, Doc("alarm", a), FALSE) : sh \in {"bare", "string", "envelope"}, a \in Alarms}
    \cup {AlarmRaw("bare", Doc("alarm", a), TRUE) : a \in {x \in Alarms : x.Trigger = ZeroTrigger}}
    \cup {AlarmRaw(sh, Doc(k, ZeroAlarm), FALSE) :
            sh \in {"bare", "string", "envelope"},
            k \in {"badfield", "null", "number", "array", "invalid"}}
    \cup {AlarmRaw(sh, Doc(k, ZeroAlarm), FALSE) :
            sh \in {"string", "envelope"}, k \in {"empty", "blank"}}
    \cup {AlarmRaw(sh, Doc("empty", ZeroAlarm), FALSE) : sh \in {"empty", "blank", "norecords"}}
    \cup {AlarmRaw(sh, Doc("alarm", a), pad) :
            sh \in {"stringenvelope", "objenvelope"}, pad \in BOOLEAN,
            a \in {x \in Alarms : x.Trigger = ZeroTrigger /\ x.AlarmDescription = <<>>
                                   /\ x.NewStateValue \in {StateALARM, <<>>}}}
    \cup {AlarmRaw("envelope", Doc("alarm", a), TRUE) :
            a \in {x \in Alarms : x.Trigger = ZeroTrigger /\ x.AlarmDescription = <<>>
                                   /\ x.NewStateValue \in {StateALARM, <<>>}}}

ConfiguredTargets == {<<>>, <<" ">>, AlarmURL, <<" ">> \o AlarmURL \o <<"\n">>}

\* the values of ADAPTER_TYPE, and the events handed to the selected adapter,
\* each as the direct adapter and as the alarm adapter read its bytes
AdapterTypes ==
    {<<>>, <<" ">>, AdapterDirect, <<"D", "I", "R", "E", "C", "T">>,
     <<" ", "D", "i", "r", "e", "c", "t", "\n">>,
     AdapterCloudWatch, <<"C", "l", "o", "u", "d", "W", "a", "t", "c", "h">>,
     <<"\t", "c", "l", "o", "u", "d", "w", "a", "t", "c", "h", " ">>,
     Unknown, <<"d", "i", "r", "e", "c", "t", "s">>,
     <<"c", "l", "o", "u", "d", " ", "w", "a", "t", "c", "h">>, <<"s", "n", "s">>}

Body(raw, alarm) == [raw |-> raw, alarm |-> alarm]

Bodies ==
    {Body(Raw("object", "", MkMap([content |-> Present(String(<<"hello">>))]), FALSE),
          AlarmRaw("bare", Doc("other", ZeroAlarm), FALSE)),
     Body(Raw("object", "", NoMembers, FALSE), AlarmRaw("bare", Doc("alarm", ZeroAlarm), FALSE)),
     Body(Raw("number", "", NoMembers, FALSE), AlarmRaw("bare", Doc("number", ZeroAlarm), FALSE)),
     Body(Raw("null", "", NoMembers, FALSE), AlarmRaw("bare", Doc("null", ZeroAlarm), FALSE)),
     Body(Raw("invalid", "", NoMembers, FALSE), AlarmRaw("bare", Doc("invalid", ZeroAlarm), FALSE)),
     Body(Raw("string", "blank", NoMembers, FALSE), AlarmRaw("string", Doc("blank", ZeroAlarm), FALSE)),
     Body(Raw("empty", "", NoMembers, FALSE), AlarmRaw("empty", Doc("empty", ZeroAlarm), FALSE))}

\* the events handed to notifyProcessingError on its own
NotifyEvents ==
    {Raw("object", "", MkMap([content |-> Present(String(<<"hello">>))]), FALSE),
     Raw("number", "", NoMembers, TRUE),
     Raw("invalid", "", NoMembers, FALSE),
     Raw("blank", "", NoMembers, FALSE),
     Raw("empty", "", NoMembers, FALSE)}

(***************************************************************************)
(* the entrypoint as a state machine                                       *)
(*                                                                         *)
(* pc is the position of HandleRequest; posts is the log of the requests   *)
(* handed to the HTTP client in this invocation, each with what the client *)
(* did with it.  call holds a direct call of Send, of the direct adapter's *)
(* Transform or of notifyProcessingError, made on its own as the packages' *)
(* callers do: its arguments, the environment variable it reads (env) and  *)
(* what it returned.                                                       *)
(***************************************************************************)
NoEvent == Raw("empty", "", NoMembers, FALSE)
NoResponse == [StatusCode |-> 0, Body |-> <<>>, err |-> Nil]
NoOutcome == Outcome(Nil, 0, <<>>, Nil, Nil)
NoAlarmEvent == AlarmRaw("empty", Doc("empty", ZeroAlarm), FALSE)

NoCall ==
    [fn |-> "none", payload |-> ZeroPayload, raw |-> NoEvent, alarm |-> NoAlarmEvent,
     eventMap |-> NilMap, adapterType |-> <<>>,
     cause |-> Nil, env |-> <<>>, outcome |-> NoOutcome,
     result |-> Result(0, <<>>, Nil, <<>>, FALSE),
     transformed |-> Transformed(ZeroPayload, NilMap, Nil)]

\* the log entries of the requests a send made under outcome o
Logged(reqs, o, purpose) ==
    [i \in 1..Len(reqs) |-> [url |-> reqs[i].url, body |-> reqs[i].body, outcome |-> o,
                             purpose |-> purpose]]

Init ==
    /\ pc = "idle"
    /\ event = NoEvent
    /\ errorWebhook = <<>>
    /\ eventMap = NilMap
    /\ webhookURL = <<>>
    /\ payload = NilMap
    /\ procErr = Nil
    /\ response = NoResponse
    /\ posts = <<>>
    /\ call = NoCall

\* the runtime invokes HandleRequest with an event, under some environment
Invoke ==
    /\ pc = "idle"
    /\ \E raw \in HandlerEvents, env \in ErrorWebhooks :
          /\ event' = raw
          /\ errorWebhook' = env
    /\ pc' = "normalise"
    /\ UNCHANGED <<eventMap, webhookURL, payload, procErr, response, posts, call>>

\* line 150: eventMap, err := normaliseEvent(event); on error the notifier is
\* handed a nil map
Normalise ==
    /\ pc = "normalise"
    /\ IF normaliseEvent(event).err # Nil
       THEN /\ procErr' = normaliseEvent(event).err
            /\ eventMap' = NilMap
            /\ pc' = "failed"
       ELSE /\ eventMap' = normaliseEvent(event).eventMap
            /\ procErr' = Nil
            /\ pc' = "extract"
    /\ UNCHANGED <<event, errorWebhook, webhookURL, payload, response, posts, call>>

\* line 156: webhookURL, err := extractWebhookURL(eventMap)
ExtractWebhookURL ==
    /\ pc = "extract"
    /\ IF extractWebhookURLMain(eventMap).err # Nil
       THEN /\ procErr' = extractWebhookURLMain(eventMap).err
            /\ webhookURL' = <<>>
            /\ pc' = "failed"
       ELSE /\ webhookURL' = extractWebhookURLMain(eventMap).url
            /\ procErr' = Nil
            /\ pc' = "build"
    /\ UNCHANGED <<event, errorWebhook, eventMap, payload, response, posts, call>>

\* line 162: payload, err := buildDiscordPayload(eventMap)
BuildDiscordPayload ==
    /\ pc = "build"
    /\ IF buildDiscordPayload(eventMap).err # Nil
       THEN /\ procErr' = buildDiscordPayload(eventMap).err
            /\ payload' = NilMap
            /\ pc' = "failed"
       ELSE /\ payload' = buildDiscordPayload(eventMap).payload
            /\ procErr' = Nil
            /\ pc' = "send"
    /\ UNCHANGED <<event, errorWebhook, eventMap, webhookURL, response, posts, call>>

\* lines 168-174: the primary send; on success HandleRequest returns the Response
SendDiscordMessage ==
    /\ pc = "send"
    /\ \E o \in Outcomes :
          LET r == sendDiscordMessage(webhookURL, payload, o) IN
          /\ posts' = posts \o Logged(r.reqs, o, "primary")
          /\ IF r.err # Nil
             THEN /\ procErr' = r.err
                  /\ response' = response
                  /\ pc' = "failed"
             ELSE /\ procErr' = Nil
                  /\ response' = [StatusCode |-> r.status, Body |-> r.body, err |-> Nil]
                  /\ pc' = "done"
    /\ UNCHANGED <<event, errorWebhook, eventMap, webhookURL, payload, call>>

\* a mutation of the error return in which a failed notification replaces the error
ReturnedErrorMasked(err, reqs, o) ==
    IF Len(reqs) > 0 /\ o.doErr # Nil THEN WebhookError(o.doErr) ELSE err

\* the error HandleRequest returns after notifyProcessingError came back:
\* return Response{}, err
ReturnedError(err, reqs, o) == err

\* lines 152-153, 158-159, 164-165, 170-171: notifyProcessingError(...), then
\* return Response{}, err
NotifyAndReturn ==
    /\ pc = "failed"
    /\ \E o \in Outcomes :
          LET reqs == notifyProcessingError(event, eventMap, procErr, errorWebhook, o) IN
          /\ posts' = posts \o Logged(reqs, o, "diagnostic")
          /\ response' = [StatusCode |-> 0, Body |-> <<>>, err |-> ReturnedError(procErr, reqs, o)]
    /\ pc' = "done"
    /\ UNCHANGED <<event, errorWebhook, eventMap, webhookURL, payload, procErr, call>>

\* a caller hands a notification to discord.Send
CallSend ==
    /\ pc = "idle"
    /\ \E p \in SendPayloads, o \in Outcomes :
          call' = [NoCall EXCEPT !.fn = "Send", !.payload = p, !.outcome = o,
                                 !.result = Send(p, o)]
    /\ pc' = "called"
    /\ UNCHANGED <<event, errorWebhook, eventMap, webhookURL, payload, procErr, response, posts>>

\* a caller hands an event to DirectAdapter.Transform
CallTransform ==
    /\ pc = "idle"
    /\ \E raw \in DirectEvents, fb \in Fallbacks :
          call' = [NoCall EXCEPT !.fn = "Transform", !.raw = raw, !.env = fb,
                                 !.transformed = Transform(raw, fb)]
    /\ pc' = "called"
    /\ UNCHANGED <<event, errorWebhook, eventMap, webhookURL, payload, procErr, response, posts>>

\* a caller builds the alarm adapter with a target and hands an event to its
\* Transform
CallCloudWatchTransform ==
    /\ pc = "idle"
    /\ \E raw \in AlarmEvents, configured \in ConfiguredTargets :
          call' = [NoCall EXCEPT !.fn = "CloudWatchTransform", !.alarm = raw, !.env = configured,
                                 !.transformed = CloudWatchTransform(raw, configured)]
    /\ pc' = "called"
    /\ UNCHANGED <<event, errorWebhook, eventMap, webhookURL, payload, procErr, response, posts>>

\* a caller hands a value of ADAPTER_TYPE and an event to
\* buildNotificationPayload
CallBuildNotificationPayload ==
    /\ pc = "idle"
    /\ \E adapterType \in AdapterTypes, body \in Bodies, env \in Fallbacks :
          call' = [NoCall EXCEPT !.fn = "buildNotificationPayload", !.adapterType = adapterType,
                                 !.raw = body.raw, !.alarm = body.alarm, !.env = env,
                                 !.transformed = buildNotificationPayload(adapterType, body.raw,
                                                                          body.alarm, env)]
    /\ pc' = "called"
    /\ UNCHANGED <<event, errorWebhook, eventMap, webhookURL, payload, procErr, response, posts>>

\* a caller hands an event, a mapping and a cause to notifyProcessingError
CallNotifyProcessingError ==
    /\ pc = "idle"
    /\ \E raw \in NotifyEvents, cause \in {Nil, Boom}, env \in ErrorWebhooks, o \in Outcomes,
          known \in BOOLEAN :
          LET em == IF known THEN normaliseEvent(raw).eventMap ELSE NilMap IN
          call' = [NoCall EXCEPT !.fn = "notifyProcessingError", !.raw = raw, !.eventMap = em,
                                 !.cause = cause, !.env = env, !.outcome = o,
                                 !.result = Result(0, <<>>, Nil,
                                                   notifyProcessingError(raw, em, cause, env, o),
                                                   FALSE)]
    /\ pc' = "called"
    /\ UNCHANGED <<event, errorWebhook, eventMap, webhookURL, payload, procErr, response, posts>>

\* the invocation or the call is over; nothing of it is kept
Finish ==
    /\ pc \in {"done", "called"}
    /\ pc' = "idle"
    /\ event' = NoEvent
    /\ errorWebhook' = <<>>
    /\ eventMap' = NilMap
    /\ webhookURL' = <<>>
    /\ payload' = NilMap
    /\ procErr' = Nil
    /\ response' = NoResponse
    /\ posts' = <<>>
    /\ call' = NoCall

Next ==
    \/ Invoke
    \/ Normalise
    \/ ExtractWebhookURL
    \/ BuildDiscordPayload
    \/ SendDiscordMessage
    \/ NotifyAndReturn
    \/ CallSend
    \/ CallTransform
    \/ CallCloudWatchTransform
    \/ CallBuildNotificationPayload
    \/ CallNotifyProcessingError
    \/ Finish

Spec == Init /\ [][Next]_vars

(***************************************************************************)
(* reading the state                                                       *)
(***************************************************************************)
IsDiagnostic(e) == e.purpose = "diagnostic"
IsPrimary(e) == e.purpose = "primary"

\* the requests of this invocation that went to the error-reporting target
Diagnostics == SelectSeq(posts, IsDiagnostic)

\* the requests of this invocation that carried the primary notification
Primaries == SelectSeq(posts, IsPrimary)

\* HandleRequest has returned an error
ReturnedFailure == pc = "done" /\ procErr # Nil

\* reading one atom of a JSON text: st is [depth, inString, keys], the nesting
\* depth before the atom, whether it lies inside a string literal, and the
\* keys of the outermost object found so far
ScanAtom(s, i, st) ==
    IF s[i] = Quote
    THEN [depth |-> st.depth, inString |-> ~st.inString,
          keys |-> IF ~st.inString /\ st.depth = 1 /\ i + 3 <= Len(s)
                      /\ s[i + 2] = Quote /\ s[i + 3] = ":"
                   THEN st.keys \cup {s[i + 1]} ELSE st.keys]
    ELSE IF ~st.inString /\ s[i] \in {"{", "["} THEN [st EXCEPT !.depth = @ + 1]
    ELSE IF ~st.inString /\ s[i] \in {"}", "]"} THEN [st EXCEPT !.depth = @ - 1]
    ELSE st

\* reading the atoms lo..hi, by halves; a text that closes more than it
\* opened is not read further
RECURSIVE Scan(_, _, _, _)
Scan(s, lo, hi, st) ==
    IF lo > hi THEN st
    ELSE IF lo = hi THEN ScanAtom(s, lo, st)
    ELSE LET left == Scan(s, lo, (lo + hi) \div 2, st)
         IN IF left.depth < 0 THEN left
            ELSE Scan(s, ((lo + hi) \div 2) + 1, hi, left)

\* the keys of the outermost object of a JSON text
TopKeys(s) == Scan(s, 1, Len(s), [depth |-> 0, inString |-> FALSE, keys |-> {}]).keys

KeyAtoms(key) == <<Quote, key, Quote, ":">>

\* a direct call of Send handed a request to the HTTP client
SendCalledDo == call.fn = "Send" /\ call.result.reqs # <<>>

(***************************************************************************)
(* C1: whenever a stage of HandleRequest fails, the caller gets exactly    *)
(* the error of that stage and an empty Response, whatever became of the   *)
(* failure notification (delivered, failed in transport, or not sent); and *)
(* an error is returned only when a stage failed.                          *)
(***************************************************************************)
C1_OriginalErrorReturned ==
    pc = "done" =>
        /\ procErr # Nil => response = [StatusCode |-> 0, Body |-> <<>>, err |-> procErr]
        /\ response.err # Nil => response.err = procErr

\* a stage failed with an error that is no WebhookError, the diagnostic POST
\* failed in transport, and the stage's error came back
C1_Witness ==
    /\ ReturnedFailure
    /\ procErr.type # "WebhookError"
    /\ Len(Diagnostics) = 1
    /\ Diagnostics[1].outcome.doErr # Nil
    /\ response.err = procErr

(***************************************************************************)
(* C2 as stated: every failed invocation with a non-blank error-reporting  *)
(* target issues exactly one diagnostic POST whose body contains "Failed   *)
(* to process request" and the literal bytes of the event.                 *)
(***************************************************************************)
C2_LiteralPayloadInDiagnostic ==
    ReturnedFailure /\ ~IsBlank(errorWebhook) =>
        /\ Len(Diagnostics) = 1
        /\ Contains(Diagnostics[1].body, <<"Failed to process request">>)
        /\ Contains(Diagnostics[1].body, RawText(event))

\* what the diagnostic shows of the request: the normalised mapping re-indented
\* when there is one, else the trimmed event, re-indented when it is valid JSON
ShownRequest ==
    IF ~eventMap.isNil THEN MarshalIndent(eventMap)
    ELSE IF Valid(event) THEN Indent(event)
    ELSE TrimSpace(RawText(event))

(***************************************************************************)
(* C2 amended: every failed invocation with a non-blank error-reporting    *)
(* target for which a request can be built issues exactly one diagnostic   *)
(* POST, to the trimmed target; its body contains "Failed to process       *)
(* request: " followed by the error's message, and a fenced rendering of   *)
(* the request (the normalised mapping re-indented, else the trimmed       *)
(* event, re-indented when valid JSON), escaped as a JSON string.  The     *)
(* literal bytes of the event are in it when the event is an unpadded bare *)
(* number, boolean or null.  With a target no request can be built for, no *)
(* diagnostic POST is issued.                                              *)
(***************************************************************************)
C2_DiagnosticPosted ==
    ReturnedFailure /\ ~IsBlank(errorWebhook) =>
        IF NewRequestFails(TrimSpace(errorWebhook)) THEN Len(Diagnostics) = 0
        ELSE /\ Len(Diagnostics) = 1
             /\ Diagnostics[1].url = TrimSpace(errorWebhook)
             /\ Contains(Diagnostics[1].body, Escape(FailedPrefix \o procErr.msg))
             /\ Contains(Diagnostics[1].body, Escape(<<"\n">> \o ShownRequest \o <<"\n">>))
             /\ (event.shape \in {"number", "bool", "null"} /\ ~event.pad
                    => Contains(Diagnostics[1].body, RawText(event)))

\* the event {"content":"missing webhook"} fails for want of a target and the
\* diagnostic shows the mapping re-indented, not the bytes of the event
C2_Witness ==
    /\ ReturnedFailure
    /\ event.shape = "object"
    /\ DOMAIN event.m = {"content"}
    /\ event.m["content"].s = <<"missing", " ", "webhook">>
    /\ Len(Diagnostics) = 1
    /\ Diagnostics[1].url = ErrorURL
    /\ ~Contains(Diagnostics[1].body, RawText(event))

(***************************************************************************)
(* C3: notifyProcessingError hands no request to the HTTP client when the  *)
(* cause is nil or ERROR_WEBHOOK_URL is empty or only whitespace; so an    *)
(* invocation under such a target issues no diagnostic POST.               *)
(***************************************************************************)
C3_NotifierNoOp ==
    /\ call.fn = "notifyProcessingError" /\ (call.cause = Nil \/ IsBlank(call.env))
          => call.result.reqs = <<>>
    /\ pc = "done" /\ IsBlank(errorWebhook) => Len(Diagnostics) = 0

\* the notifier was called with a nil cause under a usable target
C3_Witness ==
    /\ call.fn = "notifyProcessingError"
    /\ call.cause = Nil
    /\ call.env = ErrorURL
    /\ call.result.reqs = <<>>

(***************************************************************************)
(* C4: when Do returns a response, whatever its status, and the body is    *)
(* read and closed without error, Send returns no error and the status and *)
(* body as received; HandleRequest returns them as Response{StatusCode,    *)
(* Body}.                                                                  *)
(***************************************************************************)
C4_StatusPassedThrough ==
    /\ SendCalledDo /\ call.outcome.doErr = Nil /\ call.outcome.readErr = Nil
          /\ call.outcome.closeErr = Nil
          => /\ call.result.err = Nil
             /\ call.result.status = call.outcome.status
             /\ call.result.body = call.outcome.body
    /\ pc = "done" /\ Len(Primaries) = 1 /\ Primaries[1].outcome.doErr = Nil
          /\ Primaries[1].outcome.readErr = Nil /\ Primaries[1].outcome.closeErr = Nil
          => response = [StatusCode |-> Primaries[1].outcome.status,
                         Body |-> Primaries[1].outcome.body, err |-> Nil]

\* Send got a 404 with a body and returned both without error
C4_Witness ==
    /\ SendCalledDo
    /\ call.outcome.doErr = Nil
    /\ call.outcome.status = 404
    /\ call.result.status = 404
    /\ call.result.body = call.outcome.body
    /\ call.result.err = Nil

(***************************************************************************)
(* C5: Send on a payload whose WebhookURL is blank, or whose Content is    *)
(* blank while it has no Embeds, returns a validation error and hands no   *)
(* request to the HTTP client.                                             *)
(***************************************************************************)
C5_ValidationBeforeNetwork ==
    call.fn = "Send"
        /\ (IsBlank(call.payload.WebhookURL)
            \/ (IsBlank(call.payload.Content) /\ Len(call.payload.Embeds) = 0))
        => /\ call.result.err \in {New("discord webhook URL must be provided"),
                                   New("notification payload must include content or embeds")}
           /\ call.result.reqs = <<>>
           /\ call.result.status = 0

\* Send was handed a payload with a target but neither content nor embeds
C5_Witness ==
    /\ call.fn = "Send"
    /\ call.payload.WebhookURL = HookURL
    /\ call.payload.Content = <<" ">>
    /\ Len(call.payload.Embeds) = 0
    /\ call.result.err = New("notification payload must include content or embeds")
    /\ call.result.reqs = <<>>

(***************************************************************************)
(* C6: within one invocation the HTTP client is handed at most two         *)
(* requests: at most one for the primary notification and at most one for  *)
(* the failure diagnostic, the diagnostic never before the primary; a      *)
(* request that failed is not sent again, neither by the entrypoint nor by *)
(* Send.                                                                   *)
(***************************************************************************)
C6_AtMostTwoPosts ==
    /\ Len(posts) <= 2
    /\ Len(Primaries) <= 1
    /\ Len(Diagnostics) <= 1
    /\ \A i, j \in 1..Len(posts) : IsDiagnostic(posts[i]) /\ IsPrimary(posts[j]) => j < i
    /\ Len(call.result.reqs) <= 1

\* the primary POST failed in transport and one diagnostic POST followed it
C6_Witness ==
    /\ pc = "done"
    /\ Len(posts) = 2
    /\ IsPrimary(posts[1])
    /\ posts[1].outcome.doErr # Nil
    /\ IsDiagnostic(posts[2])

(***************************************************************************)
(* C7: Send returns a WebhookError exactly when the client's Do failed; a  *)
(* failure to read or to close the response body after a successful Do is  *)
(* another kind of error; and the body is closed although reading it       *)
(* failed, a failed close being reported along with the failed read.       *)
(***************************************************************************)
C7_WebhookErrorIffDoFails ==
    call.fn = "Send" =>
        /\ call.result.err.type = "WebhookError"
              <=> (call.result.reqs # <<>> /\ call.outcome.doErr # Nil)
        /\ call.result.err.type = "WebhookError"
              => call.result.err.msg =
                    <<"failed to send message to Discord", ": ">> \o call.outcome.doErr.msg
        /\ SendCalledDo /\ call.outcome.doErr = Nil
              /\ (call.outcome.readErr # Nil \/ call.outcome.closeErr # Nil)
              => call.result.err.type \in {"wrapError"}
        /\ SendCalledDo /\ call.outcome.doErr = Nil /\ call.outcome.readErr # Nil
              => /\ call.result.closed
                 /\ call.outcome.closeErr # Nil
                       => Contains(call.result.err.msg, call.outcome.closeErr.msg)

\* Do succeeded, then reading and closing the body both failed
C7_Witness ==
    /\ SendCalledDo
    /\ call.outcome.doErr = Nil
    /\ call.outcome.readErr # Nil
    /\ call.outcome.closeErr # Nil
    /\ call.result.err.type = "wrapError"
    /\ call.result.closed

(***************************************************************************)
(* C8: for every payload that passes Validate, the request body has the    *)
(* key "content" exactly when Content is not blank, "embeds" exactly when  *)
(* there are Embeds, "username" and "avatar_url" exactly when the string   *)
(* is not blank, "allowed_mentions" exactly when AllowedMentions is not    *)
(* nil (an all-empty one included); each at most once, no other key, and   *)
(* no member is null.                                                      *)
(***************************************************************************)
C8_KeysIffSet ==
    SendCalledDo =>
        LET body == call.result.reqs[1].body
            p == call.payload
        IN /\ TopKeys(body) =
                {k \in {"content"} : ~IsBlank(p.Content)}
                \cup {k \in {"embeds"} : Len(p.Embeds) > 0}
                \cup {k \in {"username"} : ~IsBlank(p.Username)}
                \cup {k \in {"avatar_url"} : ~IsBlank(p.AvatarURL)}
                \cup {k \in {"allowed_mentions"} : p.AllowedMentions.set}
           /\ \A k \in TopKeys(body) : Count(body, KeyAtoms(k)) = 1
           /\ ~Contains(body, <<":", "null">>)
           /\ Head(body) = "{" /\ body[Len(body)] = "}"

\* a valid payload with the all-empty mention policy was serialised with
\* "allowed_mentions":{} and without "username"
C8_Witness ==
    /\ SendCalledDo
    /\ call.payload.AllowedMentions = NoMentions
    /\ call.payload.Username = <<" ">>
    /\ Contains(call.result.reqs[1].body, KeyAtoms("allowed_mentions") \o <<"{", "}">>)
    /\ "username" \notin TopKeys(call.result.reqs[1].body)

(***************************************************************************)
(* C9: every diagnostic notification the failure notifier builds has the   *)
(* content "Failed to process request: " followed by the cause's message,  *)
(* an "allowed_mentions" member in the explicit-suppression form (present, *)
(* all-empty), and exactly one embed, titled "Request".                    *)
(***************************************************************************)
C9_DiagnosticSuppressesMentions ==
    \A i \in 1..Len(Diagnostics) :
        LET body == Diagnostics[i].body IN
        /\ Contains(body, KeyAtoms("content") \o MarshalString(FailedPrefix \o procErr.msg))
        /\ Contains(body, KeyAtoms("allowed_mentions") \o <<"{", "}">>)
        /\ Count(body, KeyAtoms("title")) = 1
        /\ Contains(body, KeyAtoms("title") \o MarshalString(<<"Request">>))

(***************************************************************************)
(* C10: once the event is normalised, the direct adapter takes the target  *)
(* from "webhookURL" if that is present and not blank, else from           *)
(* "webhook_url" if that is present and not blank, else from the trimmed   *)
(* WEBHOOK_URL if that is not blank; Transform fails with the              *)
(* missing-target error exactly when all three are blank.  A target in the *)
(* event is never overridden by WEBHOOK_URL.                               *)
(***************************************************************************)
\* the trimmed text of a member of the event that is present and not null
NonBlankMember(em, key) ==
    IF Has(em, key) /\ em.m[key].t # "null" THEN TrimSpace(Sprint(em.m[key])) ELSE <<>>

MissingTarget == New("event must contain a 'webhookURL' or 'webhook_url'")

C10_TargetOrder ==
    call.fn = "Transform" /\ normaliseEvent(call.raw).err = Nil =>
        LET em == normaliseEvent(call.raw).eventMap
            expected == IF NonBlankMember(em, "webhookURL") # <<>>
                        THEN NonBlankMember(em, "webhookURL")
                        ELSE IF NonBlankMember(em, "webhook_url") # <<>>
                        THEN NonBlankMember(em, "webhook_url")
                        ELSE TrimSpace(call.env)
        IN /\ call.transformed.err = MissingTarget <=> expected = <<>>
           /\ call.transformed.err = Nil => call.transformed.payload.WebhookURL = expected

\* "webhookURL" is blank, "webhook_url" is absent, and the padded WEBHOOK_URL
\* became the target, trimmed
C10_Witness ==
    /\ call.fn = "Transform"
    /\ call.raw.shape = "object"
    /\ Has(Map(call.raw.m), "webhookURL")
    /\ ~Has(Map(call.raw.m), "webhook_url")
    /\ call.env = <<" ">> \o FallbackURL \o <<"\n">>
    /\ call.transformed.err = Nil
    /\ call.transformed.payload.WebhookURL = FallbackURL


(***************************************************************************)
(* reading a call of the direct adapter                                    *)
(***************************************************************************)
\* Transform was called and normaliseEvent gave it a mapping
TransformNormalised == call.fn = "Transform" /\ normaliseEvent(call.raw).err = Nil

\* the mapping normaliseEvent gave Transform
TransformMap == normaliseEvent(call.raw).eventMap

(***************************************************************************)
(* C11 as stated: whenever the event has both a "content" and a "message"  *)
(* key and the direct adapter returns a notification, its body is the      *)
(* trimmed value of "content".                                             *)
(***************************************************************************)
C11_ContentAlwaysWins ==
    TransformNormalised /\ Has(TransformMap, "content") /\ Has(TransformMap, "message")
        /\ call.transformed.err = Nil =>
        call.transformed.payload.Content = TrimSpace(Sprint(TransformMap.m["content"]))

(***************************************************************************)
(* C11 amended: when the event has both keys and the direct adapter        *)
(* returns a notification, its body is the trimmed value of "content" if   *)
(* that is neither null nor blank, and the trimmed value of "message"      *)
(* otherwise; with a non-blank "content" the adapter never reports the     *)
(* content as missing.                                                     *)
(***************************************************************************)
C11_ContentWinsUnlessBlank ==
    TransformNormalised /\ Has(TransformMap, "content") /\ Has(TransformMap, "message") =>
        /\ call.transformed.err = Nil =>
              call.transformed.payload.Content =
                  IF NonBlankMember(TransformMap, "content") # <<>>
                  THEN NonBlankMember(TransformMap, "content")
                  ELSE NonBlankMember(TransformMap, "message")
        /\ NonBlankMember(TransformMap, "content") # <<>> =>
              call.transformed.err # ContentMissing

\* both keys hold text and the body is the trimmed "content"
C11_Witness ==
    /\ TransformNormalised
    /\ Has(TransformMap, "message")
    /\ Has(TransformMap, "content")
    /\ TransformMap.m["content"] = String(<<" ", "hello", " ">>)
    /\ call.transformed.err = Nil
    /\ call.transformed.payload.Content = <<"hello">>

(***************************************************************************)
(* C12 as stated: whenever the event has neither a "content" nor a         *)
(* "message" key, the direct adapter fails with the content-missing error, *)
(* whether or not a target can be resolved.  (Stated of events that give a *)
(* mapping, so that a null event does not count against it.)               *)
(***************************************************************************)
C12_ContentMissingAlways ==
    TransformNormalised /\ ~TransformMap.isNil
        /\ ~Has(TransformMap, "content") /\ ~Has(TransformMap, "message") =>
        call.transformed.err = ContentMissing

(***************************************************************************)
(* C12 amended: whenever the event has neither key, the direct adapter     *)
(* fails and returns no notification: with the missing-target error when   *)
(* neither the event nor WEBHOOK_URL gives a target, and with the          *)
(* content-missing error otherwise, whatever the embeds, the mention       *)
(* policy and the sender fields are.                                       *)
(***************************************************************************)
C12_ContentMissingAfterTarget ==
    TransformNormalised /\ ~Has(TransformMap, "content") /\ ~Has(TransformMap, "message") =>
        /\ call.transformed.payload = ZeroPayload
        /\ call.transformed.err =
              IF NonBlankMember(TransformMap, "webhookURL") = <<>>
                 /\ NonBlankMember(TransformMap, "webhook_url") = <<>>
                 /\ TrimSpace(call.env) = <<>>
              THEN MissingTarget
              ELSE ContentMissing

\* a target and well-formed embeds, yet the content is reported missing
C12_Witness ==
    /\ TransformNormalised
    /\ ~Has(TransformMap, "content")
    /\ ~Has(TransformMap, "message")
    /\ NonBlankMember(TransformMap, "webhookURL") = HookURL
    /\ Has(TransformMap, "embeds")
    /\ TransformMap.m["embeds"] = ExampleEmbeds
    /\ call.transformed.err = ContentMissing

(***************************************************************************)
(* C13: for every event that is not empty or whitespace, not a JSON        *)
(* object, and not a JSON string whose content is empty or a JSON object   *)
(* (arrays, numbers, booleans, null, strings wrapping anything else), the  *)
(* direct adapter stops at normaliseEvent: it returns a normalisation      *)
(* error and no mapping.                                                   *)
(***************************************************************************)
NormalisationErrors ==
    {New("event must be an object or JSON string"),
     Errorf("event string must contain valid JSON object", JSONError)}

\* the event is of a shape normaliseEvent is to reject
Rejectable(raw) ==
    \/ raw.shape \in {"array", "number", "bool", "null", "invalid"}
    \/ raw.shape = "string" /\ raw.inner \in {"null", "number", "wrapped", "invalid"}

C13_NonObjectsRejected ==
    call.fn = "Transform" /\ Rejectable(call.raw) =>
        /\ call.transformed.err \in NormalisationErrors
        /\ call.transformed.eventMap.isNil

(***************************************************************************)
(* C14: for every JSON object, the direct adapter gives the JSON string    *)
(* that encodes the object (padded inside or not) the same mapping and the *)
(* same notification or error as the object itself; a string that encodes  *)
(* such a string is not unwrapped a second time and is rejected.           *)
(***************************************************************************)
C14_StringWrappingTransparent ==
    call.fn = "Transform" /\ call.raw.shape = "string" =>
        /\ call.raw.inner \in {"object", "padobject"} =>
              /\ call.transformed = Transform(Raw("object", "", call.raw.m, FALSE), call.env)
              /\ call.transformed.eventMap = Map(call.raw.m)
        /\ call.raw.inner = "wrapped" =>
              /\ call.transformed.err
                    = Errorf("event string must contain valid JSON object", JSONError)
              /\ call.transformed.eventMap.isNil

\* a string wrapping {"webhookURL": ..., "message": "fallback"} became the
\* notification the object itself gives
C14_Witness ==
    /\ call.fn = "Transform"
    /\ call.raw.shape = "string"
    /\ call.raw.inner = "padobject"
    /\ DOMAIN call.raw.m = {"webhookURL", "message"}
    /\ call.transformed.err = Nil
    /\ call.transformed.payload.WebhookURL = HookURL
    /\ call.transformed.payload.Content = <<"fallback">>
    /\ Contains(RawText(call.raw), <<"\\\"", "message", "\\\"">>)


(***************************************************************************)
(* C15: when the direct adapter returns a notification for an event whose  *)
(* "allowed_mentions" is an object, the notification's mention policy is   *)
(* nil if parse, users and roles are all empty and replied_user is false,  *)
(* and otherwise is the policy with exactly the event's values.            *)
(***************************************************************************)
\* the event's "allowed_mentions" is an object of the Discord schema
HasMentionsObject ==
    /\ TransformNormalised
    /\ Has(TransformMap, "allowed_mentions")
    /\ TransformMap.m["allowed_mentions"].t = "object"
    /\ TransformMap.m["allowed_mentions"].obj.kind = "object"

\* the four values of the event's "allowed_mentions"
GivenMentions == TransformMap.m["allowed_mentions"].obj

\* the event's "allowed_mentions" has nothing in it
GivenMentionsEmpty ==
    /\ GivenMentions.parse = <<>>
    /\ GivenMentions.users = <<>>
    /\ GivenMentions.roles = <<>>
    /\ ~GivenMentions.replied_user

C15_EmptyPolicyIsAbsent ==
    HasMentionsObject /\ call.transformed.err = Nil =>
        IF GivenMentionsEmpty
        THEN ~call.transformed.payload.AllowedMentions.set
        ELSE /\ call.transformed.payload.AllowedMentions.set
             /\ call.transformed.payload.AllowedMentions.Parse = GivenMentions.parse
             /\ call.transformed.payload.AllowedMentions.Users = GivenMentions.users
             /\ call.transformed.payload.AllowedMentions.Roles = GivenMentions.roles
             /\ call.transformed.payload.AllowedMentions.RepliedUser = GivenMentions.replied_user

\* a policy whose only content is replied_user = true is kept
C15_Witness ==
    /\ HasMentionsObject
    /\ call.transformed.err = Nil
    /\ GivenMentions.parse = <<>>
    /\ GivenMentions.users = <<>>
    /\ GivenMentions.roles = <<>>
    /\ GivenMentions.replied_user
    /\ call.transformed.payload.AllowedMentions = Mentions(<<>>, <<>>, <<>>, TRUE)

(***************************************************************************)
(* C16 as stated: in the body serialized from the direct adapter's         *)
(* notification, "allowed_mentions" is present whenever the event carries  *)
(* an allowed_mentions object, all-empty or not, and is absent whenever    *)
(* the event has no such key.                                              *)
(***************************************************************************)
\* the body Send serializes from the notification Transform returned
WireBody == buildRequestBody(call.transformed.payload)

C16_ExplicitEmptinessSurvives ==
    TransformNormalised /\ call.transformed.err = Nil =>
        /\ HasMentionsObject => "allowed_mentions" \in TopKeys(WireBody)
        /\ ~Has(TransformMap, "allowed_mentions") => "allowed_mentions" \notin TopKeys(WireBody)

(***************************************************************************)
(* C16 amended: in the body serialized from the direct adapter's           *)
(* notification, "allowed_mentions" is absent when the event has no such   *)
(* key and also when the event's allowed_mentions object is all-empty; it  *)
(* is present, with the event's values, exactly when the object has a      *)
(* non-empty collection or replied_user true.                              *)
(***************************************************************************)
C16_EmptinessBecomesAbsence ==
    TransformNormalised /\ call.transformed.err = Nil =>
        /\ ~Has(TransformMap, "allowed_mentions") => "allowed_mentions" \notin TopKeys(WireBody)
        /\ HasMentionsObject /\ GivenMentionsEmpty => "allowed_mentions" \notin TopKeys(WireBody)
        /\ HasMentionsObject /\ ~GivenMentionsEmpty =>
              Contains(WireBody,
                       KeyAtoms("allowed_mentions")
                       \o MarshalAllowedMentions(Mentions(GivenMentions.parse, GivenMentions.users,
                                                          GivenMentions.roles,
                                                          GivenMentions.replied_user)))

\* the event says "allowed_mentions": {} and the serialized body has no such key
C16_Witness ==
    /\ HasMentionsObject
    /\ GivenMentionsEmpty
    /\ call.transformed.err = Nil
    /\ "content" \in TopKeys(WireBody)
    /\ "allowed_mentions" \notin TopKeys(WireBody)


(***************************************************************************)
(* reading a call of the alarm adapter                                     *)
(***************************************************************************)
\* the alarm adapter's Transform returned a notification
AlarmTransformed == call.fn = "CloudWatchTransform" /\ call.transformed.err = Nil

\* the body Send serializes from the notification the alarm adapter returned
AlarmWireBody == buildRequestBody(call.transformed.payload)

\* the alarm the adapter decoded from the event
DecodedAlarm == decodeAlarm(extractAlarmMessage(call.alarm)).alarm

(***************************************************************************)
(* C17: every notification the alarm adapter returns has a mention policy  *)
(* that is set, with parse, users and roles empty and replied_user false,  *)
(* and the body serialized from it has the "allowed_mentions" key.         *)
(***************************************************************************)
C17_AlarmSuppressesMentions ==
    AlarmTransformed =>
        /\ call.transformed.payload.AllowedMentions.set
        /\ call.transformed.payload.AllowedMentions.Parse = <<>>
        /\ call.transformed.payload.AllowedMentions.Users = <<>>
        /\ call.transformed.payload.AllowedMentions.Roles = <<>>
        /\ ~call.transformed.payload.AllowedMentions.RepliedUser
        /\ "allowed_mentions" \in TopKeys(AlarmWireBody)
        /\ Contains(AlarmWireBody, KeyAtoms("allowed_mentions") \o <<"{", "}">>)

\* an alarm from a fan-out envelope, serialized with "allowed_mentions":{}
C17_Witness ==
    /\ AlarmTransformed
    /\ call.alarm.shape = "envelope"
    /\ DecodedAlarm.AlarmName = <<"CPUHigh">>
    /\ Contains(AlarmWireBody, KeyAtoms("allowed_mentions") \o <<"{", "}">>)

(***************************************************************************)
(* C18: every notification the alarm adapter returns has exactly one       *)
(* embed, whose title is not empty and is the alarm's name.                *)
(***************************************************************************)
C18_OneEmbedTitledByAlarm ==
    AlarmTransformed =>
        /\ Len(call.transformed.payload.Embeds) = 1
        /\ call.transformed.payload.Embeds[1].Title # <<>>
        /\ call.transformed.payload.Embeds[1].Title = DecodedAlarm.AlarmName

(***************************************************************************)
(* C19: in the embed of every notification the alarm adapter returns, the  *)
(* colour is 0xE74C3C when the new state, trimmed, is "ALARM" in any mix   *)
(* of upper and lower case, 0x2ECC71 when it is "OK" in any mix, and unset *)
(* (0, left out of the serialized embed) for every other new state, blank  *)
(* included.                                                               *)
(***************************************************************************)
C19_ColourIffAlarmOrOK ==
    AlarmTransformed =>
        LET state == ToLower(TrimSpace(DecodedAlarm.NewStateValue))
            colour == call.transformed.payload.Embeds[1].Color
        IN /\ state = ToLower(StateALARM) => colour = ColorAlarm
           /\ state = ToLower(StateOK) => colour = ColorOK
           /\ state \notin {ToLower(StateALARM), ToLower(StateOK)} => colour = 0
           /\ colour # 0 <=> "color" \in TopKeys(MarshalEmbed(call.transformed.payload.Embeds[1]))

\* the new state " alarm\n" gives the red colour
C19_Witness ==
    /\ AlarmTransformed
    /\ DecodedAlarm.NewStateValue = <<" ", "a", "l", "a", "r", "m", "\n">>
    /\ call.transformed.payload.Embeds[1].Color = ColorAlarm

(***************************************************************************)
(* C20: built with a target that is empty or only whitespace, the alarm    *)
(* adapter fails with "cloudwatch adapter requires webhook url" and        *)
(* returns no notification and no mapping, whatever the event is.          *)
(***************************************************************************)
C20_BlankTargetFailsFirst ==
    call.fn = "CloudWatchTransform" /\ IsBlank(call.env) =>
        /\ call.transformed.err = RequiresWebhookURL
        /\ call.transformed.payload = ZeroPayload
        /\ call.transformed.eventMap.isNil

\* an event that is not JSON, and still the error is about the target
C20_Witness ==
    /\ call.fn = "CloudWatchTransform"
    /\ call.env = <<" ">>
    /\ call.alarm.shape = "bare"
    /\ call.alarm.doc.kind = "invalid"
    /\ call.transformed.err = RequiresWebhookURL

(***************************************************************************)
(* C21: the adapter is selected by the value of ADAPTER_TYPE alone, read   *)
(* without its surrounding whitespace and without regard to case: nothing  *)
(* or "direct" hands the event to the direct adapter, "cloudwatch" hands   *)
(* it to the alarm adapter, and any other value gives, whatever the event, *)
(* an unsupported-adapter error that names the value.                      *)
(***************************************************************************)
BuiltNotification == call.fn = "buildNotificationPayload"

AlarmCalled == call.fn = "CloudWatchTransform"

\* the content of an event that is a JSON string
StringContent(raw) ==
    IF raw.shape = "string" THEN DocText(raw.doc)
    ELSE IF raw.shape = "stringenvelope" THEN EnvelopeText(DocText(raw.doc))
    ELSE <<>>

ExpectedMessage(raw) ==
    IF raw.shape \in {"string", "stringenvelope"} \/ AlarmRawText(raw) = <<"null">>
    THEN TrimSpace(StringContent(raw))
    ELSE IF raw.shape = "envelope" /\ DocText(raw.doc) # <<>> THEN DocText(raw.doc)
    ELSE TrimSpace(AlarmRawText(raw))

\* C22: the message is the one the first applicable path gives
C22_OneExtractionPath ==
    AlarmCalled =>
        IF IsBlank(AlarmRawText(call.alarm))
        THEN extractAlarmMessage(call.alarm).err # Nil
        ELSE /\ extractAlarmMessage(call.alarm).err = Nil
             /\ extractAlarmMessage(call.alarm).text = ExpectedMessage(call.alarm)

\* a JSON string that holds an envelope around the alarm "CPUHigh": the
\* message is the envelope, and the notification built from it has no title
C22_Witness ==
    /\ AlarmCalled
    /\ call.alarm.shape = "stringenvelope"
    /\ call.alarm.doc.alarm.AlarmName = <<"CPUHigh">>
    /\ call.transformed.err = Nil
    /\ call.transformed.payload.Embeds[1].Title = <<>>
    /\ call.transformed.eventMap.doc = EnvelopeDoc
(***************************************************************************)
(* C23: when the direct adapter's Transform fails after the event was      *)
(* normalised (no target, no body, malformed embeds, malformed             *)
(* allowed_mentions), it returns, with the error, the mapping the          *)
(* normalisation gave, as it was: for an event that is an object, the      *)
(* members of the object.                                                  *)
(***************************************************************************)
TransformFailedLate ==
    TransformNormalised /\ call.transformed.err # Nil

\* C23: an error after normalisation comes with the normalised mapping
C23_LateErrorsKeepMapping ==
    TransformFailedLate =>
        /\ call.transformed.eventMap = TransformMap
        /\ call.raw.shape = "object" => call.transformed.eventMap = Map(call.raw.m)
        /\ call.transformed.payload = ZeroPayload

\* an event with a target and a body whose allowed_mentions or embeds are
\* malformed: the error comes with the event's members
C23_Witness ==
    /\ TransformFailedLate
    /\ call.transformed.err \notin {MissingTarget, ContentMissing}
    /\ call.raw.shape = "object"
    /\ call.transformed.eventMap = Map(call.raw.m)
    /\ Has(call.transformed.eventMap, "content")
    /\ Has(call.transformed.eventMap, "allowed_mentions")
(***************************************************************************)
(* C24: every Transform of the alarm adapter that succeeds returns a       *)
(* mapping that is not nil: the members of the message when the message    *)
(* is read as a generic mapping, and the one-member mapping that holds the *)
(* raw text of the message when it is not.                                 *)
(***************************************************************************)
C24_MappingNeverNil ==
    AlarmTransformed =>
        /\ ~call.transformed.eventMap.isNil
        /\ call.transformed.eventMap.doc.kind \in {"alarm", "envelope", "other", "raw"}
(***************************************************************************)
(* C25: the Trigger line of the alarm's embed is made of the parts whose   *)
(* inputs are neither blank (empty or of whitespace only) nor zero, in     *)
(* this order and joined by the middle dot: namespace/metric (the metric   *)
(* alone when the namespace is blank, nothing when the metric is blank),   *)
(* the statistic kind or else the statistic, "operator threshold" when     *)
(* both are there, "for N periods" when N > 0, "period: Ns" when N > 0,    *)
(* "missing data: T" when T is not blank.  There is no Trigger field when  *)
(* no part is left.                                                        *)
(***************************************************************************)
TriggerLine(t) ==
    Join(Keep(<<
        <<~IsBlank(t.MetricName),
          IF ~IsBlank(t.Namespace) THEN t.Namespace \o <<"/">> \o t.MetricName
          ELSE t.MetricName>>,
        <<~IsBlank(t.StatisticType) \/ ~IsBlank(t.Statistic),
          IF ~IsBlank(t.StatisticType) THEN t.StatisticType ELSE t.Statistic>>,
        <<~IsBlank(t.ComparisonOperator) /\ ~IsBlank(t.Threshold),
          t.ComparisonOperator \o <<" ">> \o t.Threshold>>,
        <<t.EvaluationPeriods > 0,
          <<"for", " ", ToString(t.EvaluationPeriods), " ", "periods">> >>,
        <<t.Period > 0, <<"period:", " ", ToString(t.Period) \o "s">> >>,
        <<~IsBlank(t.TreatMissingData), <<"missing", " ", "data:", " ">> \o t.TreatMissingData>> >>),
        Middot)

\* the values of the fields named "Trigger" of an embed
TriggerFields(embed) ==
    {embed.Fields[i].Value : i \in {j \in 1..Len(embed.Fields) : embed.Fields[j].Name = <<"Trigger">>}}

\* C25: the Trigger field holds the line made of the non-blank parts, and is
\* absent when there is none
C25_TriggerLineOfNonBlankParts ==
    AlarmTransformed =>
        TriggerFields(call.transformed.payload.Embeds[1])
            = IF TriggerLine(DecodedAlarm.Trigger) = <<>> THEN {}
              ELSE {TriggerLine(DecodedAlarm.Trigger)}
(***************************************************************************)
(* C26: a notification that the direct adapter or the alarm adapter        *)
(* returns without an error has a target that is not blank and a body that *)
(* is not blank or at least one embed, so that Send, whatever the HTTP     *)
(* client then does, does not reject it as invalid.                        *)
(***************************************************************************)
AdapterSucceeded ==
    /\ call.fn \in {"Transform", "CloudWatchTransform", "buildNotificationPayload"}
    /\ call.transformed.err = Nil

InvalidPayloadErrors ==
    {New("discord webhook URL must be provided"),
     New("notification payload must include content or embeds")}

\* C26: what an adapter returns without error passes validation
C26_AdaptersBuildValidPayloads ==
    AdapterSucceeded =>
        /\ ~IsBlank(call.transformed.payload.WebhookURL)
        /\ ~IsBlank(call.transformed.payload.Content)
              \/ Len(call.transformed.payload.Embeds) > 0
        /\ \A o \in Outcomes : Send(call.transformed.payload, o).err \notin InvalidPayloadErrors

\* the direct adapter took its target from a padded WEBHOOK_URL, the event
\* naming none, and Send hands the notification to the HTTP client
C26_Witness ==
    /\ AdapterSucceeded
    /\ call.fn = "Transform"
    /\ extractWebhookURL(TransformMap).err # Nil
    /\ call.env # TrimSpace(call.env)
    /\ call.transformed.payload.WebhookURL = FallbackURL
    /\ \A o \in Outcomes : Len(Send(call.transformed.payload, o).reqs) = 1
(***************************************************************************)
(* C27: an invocation that returns a Response and no error has handed the  *)
(* HTTP client exactly one request, for the primary notification and       *)
(* addressed to the event's target, and none for the error-reporting       *)
(* target; a request for the error-reporting target is made only by an     *)
(* invocation that returns an error.                                       *)
(***************************************************************************)
ReturnedResponse == pc = "done" /\ response.err = Nil

\* C27: one primary request on success; diagnostics only with an error
C27_OnePostOnSuccess ==
    /\ ReturnedResponse =>
          /\ Len(posts) = 1
          /\ IsPrimary(posts[1])
          /\ posts[1].url = webhookURL
          /\ ~IsBlank(posts[1].url)
          /\ posts[1].outcome.doErr = Nil
    /\ Len(Diagnostics) > 0 =>
          /\ pc = "done"
          /\ response.err # Nil
          /\ \A i \in 1..Len(posts) :
                IsDiagnostic(posts[i]) => posts[i].url = TrimSpace(errorWebhook)

\* an error-reporting target is configured, and the invocation returned the
\* Response of its one request, which went to the event's target
C27_Witness ==
    /\ ReturnedResponse
    /\ errorWebhook = ErrorURL
    /\ Len(posts) = 1
    /\ posts[1].url = HookURL
    /\ response.StatusCode = posts[1].outcome.status
====
